---- MODULE Spec2Model ----
(***************************************************************************)
(* halo2-aes: AES-128 as a PLONK-ish circuit.  The model follows the       *)
(* synthesis pass of the circuits in src/: the layouter's regions with     *)
(* their advice cells, fixed cells, enabled selectors and copy             *)
(* constraints, the lookup tables as their loaders fill them, and the      *)
(* MockProver's verification of the enabled lookups.  A field element is   *)
(* modelled by its canonical natural number.                               *)
(***************************************************************************)
EXTENDS Integers, Sequences, FiniteSets, TLC

VARIABLES
    circuit,    \* the Circuit struct being synthesized: its kind and input fields
    pc,         \* position of Circuit::synthesize
    loaded,     \* the lookup tables assigned so far (assign_table calls)
    regions,    \* the layouter's regions, in order of assignment
    words,      \* synthesize's local `words`: the cells schedule_keys returned
    loop_i,     \* synthesize's loop counter i
    key,        \* FixedAes128Config.key : Option<[u8; 16]>
    outcome,    \* how the encrypt call ended, with the cells it returned
    sched       \* per-proof state of the column-group scheduler

vars == <<circuit, pc, loaded, regions, words, loop_i, key, outcome, sched>>

-----------------------------------------------------------------------------
(* Bytes and words: src/src/utils.rs                                       *)

\* u8::MAX
U8_MAX == 255

\* Bitwise XOR of two naturals (x_b ^ y_b on every little-endian byte).
RECURSIVE XorNat(_, _)
XorNat(a, b) ==
    IF a = 0 THEN b
    ELSE IF b = 0 THEN a
    ELSE (((a % 2) + (b % 2)) % 2) + 2 * XorNat(a \div 2, b \div 2)

xor_bytes(x, y) == XorNat(x, y)

\* x.iter().zip(y).map(xor_bytes): zip stops at the shorter of the two words
RECURSIVE xor_words(_, _)
xor_words(x, y) ==
    IF x = <<>> \/ y = <<>> THEN <<>>
    ELSE <<xor_bytes(Head(x), Head(y))>> \o xor_words(Tail(x), Tail(y))

\* The AES S-box in FIPS-197 order (crate::table::s_box::S_BOX).
S_BOX == <<
    99, 124, 119, 123, 242, 107, 111, 197, 48, 1, 103, 43, 254, 215, 171, 118,
    202, 130, 201, 125, 250, 89, 71, 240, 173, 212, 162, 175, 156, 164, 114, 192,
    183, 253, 147, 38, 54, 63, 247, 204, 52, 165, 229, 241, 113, 216, 49, 21,
    4, 199, 35, 195, 24, 150, 5, 154, 7, 18, 128, 226, 235, 39, 178, 117,
    9, 131, 44, 26, 27, 110, 90, 160, 82, 59, 214, 179, 41, 227, 47, 132,
    83, 209, 0, 237, 32, 252, 177, 91, 106, 203, 190, 57, 74, 76, 88, 207,
    208, 239, 170, 251, 67, 77, 51, 133, 69, 249, 2, 127, 80, 60, 159, 168,
    81, 163, 64, 143, 146, 157, 56, 245, 188, 182, 218, 33, 16, 255, 243, 210,
    205, 12, 19, 236, 95, 151, 68, 23, 196, 167, 126, 61, 100, 93, 25, 115,
    96, 129, 79, 220, 34, 42, 144, 136, 70, 238, 184, 20, 222, 94, 11, 219,
    224, 50, 58, 10, 73, 6, 36, 92, 194, 211, 172, 98, 145, 149, 228, 121,
    231, 200, 55, 109, 141, 213, 78, 169, 108, 86, 244, 234, 101, 122, 174, 8,
    186, 120, 37, 46, 28, 166, 180, 198, 232, 221, 116, 31, 75, 189, 139, 138,
    112, 62, 181, 102, 72, 3, 246, 14, 97, 53, 87, 185, 134, 193, 29, 158,
    225, 248, 152, 17, 105, 217, 142, 148, 155, 30, 135, 233, 206, 85, 40, 223,
    140, 161, 137, 13, 191, 230, 66, 104, 65, 153, 45, 15, 176, 84, 187, 22
    >>

\* S_BOX[*v.to_bytes().first().unwrap() as usize]: indexed by the low byte
sub_byte(x) == S_BOX[(x % 256) + 1]

\* x.iter().map(sub_byte)
RECURSIVE sub_word(_)
sub_word(x) == IF x = <<>> THEN <<>> ELSE <<sub_byte(Head(x))>> \o sub_word(Tail(x))

\* circular left shift by one byte
rotate_word(x) == <<x[2], x[3], x[4], x[1]>>

\* MulBy2[x] = (x << 1) ^ (0x1B if (x & 0x80) else 0), truncated to 8 bits
MUL_BY_2(x) == XorNat((2 * x) % 256, IF x >= 128 THEN 27 ELSE 0)

\* MulBy3[x] = MulBy2[x] ^ x
MUL_BY_3(x) == XorNat(MUL_BY_2(x), x)

\* the list continued by doubling, 0x6C after 0x36, with 0x1B left out
ROUND_CONSTANT_doubled == <<1, 2, 4, 8, 16, 32, 64, 128, 54, 108>>

ROUND_CONSTANT == <<1, 2, 4, 8, 16, 32, 64, 128, 27, 54>>

\* ROUND_CONSTANT[round as usize]
get_round_constant(round) == ROUND_CONSTANT[round + 1]

-----------------------------------------------------------------------------
(* Regions of the layouter.  A region holds the advice and fixed cells     *)
(* assigned in it (by column and row offset), the selectors enabled in it  *)
(* and the copy constraints made into it.  An AssignedCell is the region,  *)
(* column and offset of a cell together with its value.                    *)

NewRegion(name, by) ==
    [name |-> name, by |-> by, adv |-> <<>>, fixed |-> <<>>, sel |-> {}, copies |-> {}]

\* Selector::enable(region, offset)
Enable(rg, selector, row) == [rg EXCEPT !.sel = @ \cup {<<selector, row>>}]

\* region.assign_advice(column, offset, value)
AssignAdvice(rg, col, row, val) == [rg EXCEPT !.adv = (<<col, row>> :> val) @@ @]

\* region.assign_fixed(column, offset, value)
AssignFixed(rg, col, row, val) == [rg EXCEPT !.fixed = (<<col, row>> :> val) @@ @]

\* cell.copy_advice(region, column, offset): assigns the value and ties the cells
CopyAdvice(rg, cell, col, row) ==
    [rg EXCEPT !.adv = (<<col, row>> :> cell.val) @@ @,
               !.copies = @ \cup {[from |-> <<cell.region, cell.col, cell.row>>,
                                   to |-> <<col, row>>]}]

\* assign_advice of every byte of a word, byte j at offset pos + j
RECURSIVE AssignWord(_, _, _, _)
AssignWord(rg, col, pos, vals) ==
    IF vals = <<>> THEN rg
    ELSE AssignWord(AssignAdvice(rg, col, pos, Head(vals)), col, pos + 1, Tail(vals))

\* the AssignedCells those calls return
RECURSIVE WordCells(_, _, _, _)
WordCells(idx, col, pos, vals) ==
    IF vals = <<>> THEN <<>>
    ELSE <<[region |-> idx, col |-> col, row |-> pos, val |-> Head(vals)]>>
             \o WordCells(idx, col, pos + 1, Tail(vals))

\* v.value() of every cell of a word
RECURSIVE Values(_)
Values(word) == IF word = <<>> THEN <<>> ELSE <<Head(word).val>> \o Values(Tail(word))

-----------------------------------------------------------------------------
(* Key schedule: src/src/key_schedule.rs                                   *)

\* "Copy key into first 4 words": word i, byte j is assigned key[i * 4 + 1]
KeyByte(k, i, j) == k[(i * 4 + 1) + 1]

KeyWord(k, i) == <<KeyByte(k, i, 0), KeyByte(k, i, 1), KeyByte(k, i, 2), KeyByte(k, i, 3)>>

\* The cells the branch `if i % 4 == 0` assigns, given the bytes of the rotated,
\* substituted and rcon words: the selectors, the three words, the round
\* constant and the new word rconned XOR word_prev_round.
AssignRoundFirstWord(st, idx, i, rotated, subbed, rconned) ==
    LET pos             == i * 4
        word_prev_round == Values(st.words[(i - 4) + 1])
        rc              == get_round_constant((i \div 4) - 1)
        word            == xor_words(rconned, word_prev_round)
        r1 == [st.region EXCEPT !.sel = @ \cup {<<"q_round_first", pos>>}
                                           \cup {<<"q_sub_bytes", pos + l>> : l \in 0..3}]
        r2 == AssignWord(r1, "rot", pos, rotated)
        r3 == AssignWord(r2, "sub_bytes", pos, subbed)
        r4 == AssignFixed(r3, "round_constants", pos, rc)
        r5 == AssignWord(r4, "rcon", pos, rconned)
        r6 == AssignWord(r5, "words", pos, word)
    IN [st EXCEPT !.region = r6, !.words = Append(@, WordCells(idx, "words", pos, word))]

\* let rconned = vec![rc_byte].iter().chain(&subbed.iter().skip(1) ..)
Rconned(i, subbed) ==
    <<xor_bytes(get_round_constant((i \div 4) - 1), subbed[1])>> \o Tail(subbed)

\* The branch `if i % 4 == 0` of the loop over the words 4..43.
RoundFirstWord(st, idx, i) ==
    AssignRoundFirstWord(st, idx, i,
                         rotate_word(Values(st.words[(i - 1) + 1])),
                         sub_word(rotate_word(Values(st.words[(i - 1) + 1]))),
                         Rconned(i, sub_word(rotate_word(Values(st.words[(i - 1) + 1])))))

\* the else branch writing its word one row early, over the last byte of the
\* previous word
RoundMidWord_one_row_early(st, idx, i) ==
    LET pos             == i * 4 - 1
        word_prev_round == Values(st.words[(i - 4) + 1])
        word_prev       == Values(st.words[(i - 1) + 1])
        word            == xor_words(word_prev, word_prev_round)
        r1 == Enable(st.region, "q_round_mid", pos)
        r2 == AssignWord(r1, "words", pos, word)
    IN [st EXCEPT !.region = r2, !.words = Append(@, WordCells(idx, "words", pos, word))]

\* The else branch: the word is the XOR of the previous word and the word four back.
RoundMidWord(st, idx, i) ==
    LET pos             == i * 4
        word_prev_round == Values(st.words[(i - 4) + 1])
        word_prev       == Values(st.words[(i - 1) + 1])
        word            == xor_words(word_prev, word_prev_round)
        r1 == Enable(st.region, "q_round_mid", pos)
        r2 == AssignWord(r1, "words", pos, word)
    IN [st EXCEPT !.region = r2, !.words = Append(@, WordCells(idx, "words", pos, word))]

\* for i in 4..44; words.get(i - 4) and words.get(i - 1) are expected to be set
RECURSIVE ExpandFrom(_, _, _)
ExpandFrom(st, idx, i) ==
    IF i >= 44 THEN st
    ELSE IF Len(st.words) < i THEN [st EXCEPT !.result = "panic: Word should be set"]
    ELSE IF i % 4 = 0 THEN ExpandFrom(RoundFirstWord(st, idx, i), idx, i + 1)
    ELSE ExpandFrom(RoundMidWord(st, idx, i), idx, i + 1)

\* for i in 0..4: the first four words
RECURSIVE CopyKey(_, _, _, _)
CopyKey(st, idx, k, i) ==
    IF i >= 4 THEN st
    ELSE CopyKey([st EXCEPT !.region = AssignWord(@, "words", i * 4, KeyWord(k, i)),
                            !.words = Append(@, WordCells(idx, "words", i * 4, KeyWord(k, i)))],
                 idx, k, i + 1)

\* schedule_keys: the region "Assign words" it assigns as region number idx, the
\* Vec<Vec<AssignedCell>> it returns and how it ended.
schedule_keys(idx, k, by) ==
    ExpandFrom(CopyKey([region |-> NewRegion("Assign words", by), words |-> <<>>,
                        result |-> "Ok"], idx, k, 0),
               idx, 4)

\* A witness of the region "Assign words" other than the one the code
\* computes.  forged = [i, part, bytes]: in the round whose first word is
\* word i, part "rot" puts bytes in the rotated word and part "rcon" puts
\* bytes[2..4] in the bytes 1..3 of the rcon word; every cell that follows
\* is computed from them as the code computes it.
ForgedRoundFirstWord(st, idx, i, forged) ==
    IF forged.part = "rot"
    THEN AssignRoundFirstWord(st, idx, i, forged.bytes, sub_word(forged.bytes),
                              Rconned(i, sub_word(forged.bytes)))
    ELSE AssignRoundFirstWord(st, idx, i,
                              rotate_word(Values(st.words[(i - 1) + 1])),
                              sub_word(rotate_word(Values(st.words[(i - 1) + 1]))),
                              <<Rconned(i, sub_word(rotate_word(Values(st.words[(i - 1) + 1]))))[1]>>
                                  \o Tail(forged.bytes))

RECURSIVE ForgedExpandFrom(_, _, _, _)
ForgedExpandFrom(st, idx, i, forged) ==
    IF i >= 44 THEN st
    ELSE IF Len(st.words) < i THEN [st EXCEPT !.result = "panic: Word should be set"]
    ELSE IF i = forged.i
         THEN ForgedExpandFrom(ForgedRoundFirstWord(st, idx, i, forged), idx, i + 1, forged)
    ELSE IF i % 4 = 0 THEN ForgedExpandFrom(RoundFirstWord(st, idx, i), idx, i + 1, forged)
    ELSE ForgedExpandFrom(RoundMidWord(st, idx, i), idx, i + 1, forged)

forged_schedule(idx, k, by, forged) ==
    ForgedExpandFrom(CopyKey([region |-> NewRegion("Assign words", by), words |-> <<>>,
                              result |-> "Ok"], idx, k, 0),
                     idx, 4, forged)

-----------------------------------------------------------------------------
(* Encryption: src/src/aes128.rs.  The columns and selectors of            *)
(* FixedAes128Config carry the prefix "aes." to keep them apart from the   *)
(* key schedule's own columns and selectors of the same name.              *)

AssignedCell(idx, col, row, val) == [region |-> idx, col |-> col, row |-> row, val |-> val]

\* One pass of `for j in 0..4` of an AddRoundKey: the plaintext or mixed byte p is
\* assigned at offset + j, round_keys[r][i * 4 + j] is copied to offset + 4 + j and
\* their XOR is assigned at offset + 8 + j.  Indexing outside the Vec panics.
\* st = [rg, out, result]; ps are the four bytes of the word.
RECURSIVE AddRoundKeyWord(_, _, _, _, _, _, _, _)
AddRoundKeyWord(st, idx, ps, round_keys, r, wi, offset, j) ==
    IF j >= 4 \/ st.result # "Ok" THEN st
    ELSE IF ~(j < Len(ps)) THEN [st EXCEPT !.result = "panic: index out of bounds"]
    ELSE IF ~(r < Len(round_keys) /\ wi * 4 + j < Len(round_keys[r + 1]))
         THEN [st EXCEPT !.result = "panic: index out of bounds"]
    ELSE LET pv == ps[j + 1]
             kc == round_keys[r + 1][wi * 4 + j + 1]
             xor == xor_bytes(pv, kc.val)
             r1 == Enable(st.rg, "aes.q_xor_bytes", offset + j)
             r2 == AssignAdvice(r1, "aes.words", offset + j, pv)
             r3 == CopyAdvice(r2, kc, "aes.words", offset + 4 + j)
             r4 == AssignAdvice(r3, "aes.words", offset + 8 + j, xor)
         IN AddRoundKeyWord(
                [st EXCEPT !.rg = r4,
                           !.out = Append(@, AssignedCell(idx, "aes.words", offset + 8 + j, xor))],
                idx, ps, round_keys, r, wi, offset, j + 1)

\* plaintext[i * 4 + j] for j in 0..4
PlaintextWord(plaintext, wi) ==
    <<plaintext[wi * 4 + 1], plaintext[wi * 4 + 2], plaintext[wi * 4 + 3], plaintext[wi * 4 + 4]>>

\* "1. Initial round: Add RoundKey_0": for i in 0..4, one region per word, offset = i * 12.
\* es = [regions, round_keys, round_out, result]
\* the region of word wi is closed: round_out.extend(out), or the error is passed on
InitialWordDone(es, st) ==
    IF st.result # "Ok" THEN [es EXCEPT !.result = st.result]
    ELSE [es EXCEPT !.regions = Append(@, st.rg), !.round_out = @ \o st.out]

RECURSIVE InitialAddRoundKey(_, _, _)
InitialAddRoundKey(es, plaintext, wi) ==
    IF wi >= 4 \/ es.result # "Ok" THEN es
    ELSE InitialAddRoundKey(
             InitialWordDone(
                 es,
                 AddRoundKeyWord([rg |-> NewRegion("Assign Initial AddRoundKey", "encrypt"),
                                  out |-> <<>>, result |-> "Ok"],
                                 Len(es.regions) + 1, PlaintextWord(plaintext, wi),
                                 es.round_keys, 0, wi, wi * 12, 0)),
             plaintext, wi + 1)

\* lcon, the closure over word.iter().zip(coeffs): one product of the combination.
\* acc = [rg, tmp, internal_offset, result]
LconTerm(acc, idx, byte, col, offset) ==
    LET at == offset + acc.internal_offset
    IN CASE col = 1 ->
              [acc EXCEPT !.rg = CopyAdvice(@, byte, "aes.words", at),
                          !.tmp = Append(@, AssignedCell(idx, "aes.words", at, byte.val)),
                          !.internal_offset = @ + 1]
         [] col = 2 ->
              LET new_byte == MUL_BY_2(byte.val % 256)
              IN [acc EXCEPT !.rg = AssignAdvice(
                                        CopyAdvice(Enable(@, "aes.q_mul_by_2", at),
                                                   byte, "aes.words", at),
                                        "aes.words", at + 1, new_byte),
                             !.tmp = Append(@, AssignedCell(idx, "aes.words", at + 1, new_byte)),
                             !.internal_offset = @ + 2]
         [] col = 3 ->
              LET new_byte == MUL_BY_3(byte.val % 256)
              IN [acc EXCEPT !.rg = AssignAdvice(
                                        CopyAdvice(Enable(@, "aes.q_mul_by_3", at),
                                                   byte, "aes.words", at),
                                        "aes.words", at + 1, new_byte),
                             !.tmp = Append(@, AssignedCell(idx, "aes.words", at + 1, new_byte)),
                             !.internal_offset = @ + 2]
         [] OTHER -> [acc EXCEPT !.result = "panic: col should be 1, 2, or 3."]

RECURSIVE LconTerms(_, _, _, _, _)
LconTerms(acc, idx, word, coeffs, offset) ==
    IF word = <<>> \/ coeffs = <<>> \/ acc.result # "Ok" THEN acc
    ELSE LconTerms(LconTerm(acc, idx, Head(word), Head(coeffs), offset),
                   idx, Tail(word), Tail(coeffs), offset)

\* lcon after the products, with the last XOR taking t3 in place of m1
LconSum_last_xor_with_t3(acc, idx, offset) ==
    IF acc.result # "Ok" THEN [rg |-> acc.rg, res |-> <<>>, off |-> 0, result |-> acc.result]
       ELSE IF Len(acc.tmp) < 4
            THEN [rg |-> acc.rg, res |-> <<>>, off |-> 0, result |-> "panic: index out of bounds"]
       ELSE
       LET tmp == acc.tmp
           o   == offset + acc.internal_offset
           i0  == xor_bytes(tmp[1].val, tmp[2].val)
           i1  == xor_bytes(tmp[3].val, tmp[4].val)
           res == xor_bytes(i0, tmp[4].val)
           \* xor first two: q_xor_adj at o; tmp[0], tmp[1], intermediate_0 at o, o+1, o+2
           r1 == Enable(acc.rg, "aes.q_xor_adj", o)
           r2 == CopyAdvice(r1, tmp[1], "aes.words", o)
           r3 == CopyAdvice(r2, tmp[2], "aes.words", o + 1)
           r4 == AssignAdvice(r3, "aes.words", o + 2, i0)
           intermediate_0 == AssignedCell(idx, "aes.words", o + 2, i0)
           \* q_xor_adj at o+3; tmp[2], tmp[3] at o+3, o+4
           r5 == Enable(r4, "aes.q_xor_adj", o + 3)
           r6 == CopyAdvice(r5, tmp[3], "aes.words", o + 3)
           r7 == CopyAdvice(r6, tmp[4], "aes.words", o + 4)
           \* "enable xor_adj for the last": q_xor_adj at o+5; intermediate_1 at o+5
           r8 == Enable(r7, "aes.q_xor_adj", o + 5)
           r9 == AssignAdvice(r8, "aes.words", o + 5, i1)
           \* intermediate_0 copied to o+6, the new value at o+7
           r10 == CopyAdvice(r9, intermediate_0, "aes.words", o + 6)
           r11 == AssignAdvice(r10, "aes.words", o + 7, res)
       IN [rg |-> r11, res |-> AssignedCell(idx, "aes.words", o + 7, res),
           off |-> acc.internal_offset + 7 + 1, result |-> "Ok"]

\* lcon: the linear combination of a word with one row of the matrix.  Returns the
\* region, the result cell and the number of rows used.  LconSum is its second half,
\* lcon after the products: the three XORs of tmp[0..4].
LconSum(acc, idx, offset) ==
    IF acc.result # "Ok" THEN [rg |-> acc.rg, res |-> <<>>, off |-> 0, result |-> acc.result]
       ELSE IF Len(acc.tmp) < 4
            THEN [rg |-> acc.rg, res |-> <<>>, off |-> 0, result |-> "panic: index out of bounds"]
       ELSE
       LET tmp == acc.tmp
           o   == offset + acc.internal_offset
           i0  == xor_bytes(tmp[1].val, tmp[2].val)
           i1  == xor_bytes(tmp[3].val, tmp[4].val)
           res == xor_bytes(i0, i1)
           \* xor first two: q_xor_adj at o; tmp[0], tmp[1], intermediate_0 at o, o+1, o+2
           r1 == Enable(acc.rg, "aes.q_xor_adj", o)
           r2 == CopyAdvice(r1, tmp[1], "aes.words", o)
           r3 == CopyAdvice(r2, tmp[2], "aes.words", o + 1)
           r4 == AssignAdvice(r3, "aes.words", o + 2, i0)
           intermediate_0 == AssignedCell(idx, "aes.words", o + 2, i0)
           \* q_xor_adj at o+3; tmp[2], tmp[3] at o+3, o+4
           r5 == Enable(r4, "aes.q_xor_adj", o + 3)
           r6 == CopyAdvice(r5, tmp[3], "aes.words", o + 3)
           r7 == CopyAdvice(r6, tmp[4], "aes.words", o + 4)
           \* "enable xor_adj for the last": q_xor_adj at o+5; intermediate_1 at o+5
           r8 == Enable(r7, "aes.q_xor_adj", o + 5)
           r9 == AssignAdvice(r8, "aes.words", o + 5, i1)
           \* intermediate_0 copied to o+6, the new value at o+7
           r10 == CopyAdvice(r9, intermediate_0, "aes.words", o + 6)
           r11 == AssignAdvice(r10, "aes.words", o + 7, res)
       IN [rg |-> r11, res |-> AssignedCell(idx, "aes.words", o + 7, res),
           off |-> acc.internal_offset + 7 + 1, result |-> "Ok"]

lcon(rg, idx, word, coeffs, offset) ==
    LconSum(LconTerms([rg |-> rg, tmp |-> <<>>, internal_offset |-> 0, result |-> "Ok"],
                      idx, word, coeffs, offset),
            idx, offset)

\* SubBytes, the inner for_each: q_sub_bytes is enabled at no_word * 8 + no_byte and
\* the byte of the previous round is copied there.
RECURSIVE CopyPrevWord(_, _, _, _)
CopyPrevWord(rg, word, no_word, no_byte) ==
    IF word = <<>> THEN rg
    ELSE CopyPrevWord(CopyAdvice(Enable(rg, "aes.q_sub_bytes", no_word * 8 + no_byte),
                                 Head(word), "aes.words", no_word * 8 + no_byte),
                      Tail(word), no_word, no_byte + 1)

\* SubBytes of one chunk of four cells: sub_word asserts x.len() == 4 and the
\* substituted bytes are assigned at no_word * 8 + 4 + j.
SubBytesWord(st, idx, word, no_word) ==
    LET r1 == CopyPrevWord(st.rg, word, no_word, 0)
    IN IF Len(word) # 4
       THEN [st EXCEPT !.rg = r1, !.result = "panic: assertion failed: x.len() == 4"]
       ELSE LET vals == sub_word(Values(word))
            IN [st EXCEPT !.rg = AssignWord(r1, "aes.words", no_word * 8 + 4, vals),
                          !.subbed = Append(@, WordCells(idx, "aes.words", no_word * 8 + 4, vals))]

\* round_out.chunks(4): chunk number n (the last one may be shorter)
Chunk(v, n) == SubSeq(v, 4 * n + 1, IF 4 * n + 4 < Len(v) THEN 4 * n + 4 ELSE Len(v))

RECURSIVE SubBytes(_, _, _, _)
SubBytes(st, idx, round_out, no_word) ==
    IF no_word * 4 >= Len(round_out) \/ st.result # "Ok" THEN st
    ELSE SubBytes(SubBytesWord(st, idx, Chunk(round_out, no_word), no_word),
                  idx, round_out, no_word + 1)

\* ShiftRows, for j in 0..4: subbed[(i + j) % 4][j] is copied to offset + j
RECURSIVE ShiftWord(_, _, _, _)
ShiftWord(st, idx, wi, j) ==
    IF j >= 4 \/ st.result # "Ok" THEN st
    ELSE IF ~((wi + j) % 4 < Len(st.subbed) /\ j < Len(st.subbed[((wi + j) % 4) + 1]))
         THEN [st EXCEPT !.result = "panic: index out of bounds"]
    ELSE LET src == st.subbed[((wi + j) % 4) + 1][j + 1]
         IN ShiftWord([st EXCEPT !.rg = CopyAdvice(@, src, "aes.words", st.offset + j),
                                 !.v = Append(@, AssignedCell(idx, "aes.words", st.offset + j,
                                                              src.val))],
                      idx, wi, j + 1)

\* shifted.push(v); offset += 4
PushShifted(st) == [st EXCEPT !.shifted = Append(@, st.v), !.offset = @ + 4]

\* ShiftRows, for i in 0..4
RECURSIVE ShiftRows(_, _, _)
ShiftRows(st, idx, wi) ==
    IF wi >= 4 \/ st.result # "Ok" THEN st
    ELSE ShiftRows(PushShifted(ShiftWord([st EXCEPT !.v = <<>>], idx, wi, 0)), idx, wi + 1)

matrix == <<<<2, 3, 1, 1>>, <<1, 2, 3, 1>>, <<1, 1, 2, 3>>, <<3, 1, 1, 2>>>>

\* let (res, off) = lcon(..)?; v.push(res); offset += off
PushLcon(st, l) ==
    IF l.result # "Ok" THEN [st EXCEPT !.result = l.result]
    ELSE [st EXCEPT !.rg = l.rg, !.v = Append(@, l.res), !.offset = @ + l.off]

\* mixed.push(v)
PushMixed(st) == [st EXCEPT !.mixed = Append(@, st.v)]

\* MixColumns of one word: lcon with every row of the matrix
RECURSIVE MixWord(_, _, _, _)
MixWord(st, idx, word, rows) ==
    IF rows = <<>> \/ st.result # "Ok" THEN st
    ELSE MixWord(PushLcon(st, lcon(st.rg, idx, word, Head(rows), st.offset)),
                 idx, word, Tail(rows))

RECURSIVE MixColumns(_, _, _)
MixColumns(st, idx, ws) ==
    IF ws = <<>> \/ st.result # "Ok" THEN st
    ELSE MixColumns(PushMixed(MixWord([st EXCEPT !.v = <<>>], idx, Head(ws), matrix)),
                    idx, Tail(ws))

\* inner_round_out.push(..) of the four bytes of a word; offset += 12
PushRoundOut(st, s1) ==
    [st EXCEPT !.rg = s1.rg, !.out = @ \o s1.out, !.offset = @ + 12, !.result = s1.result]

\* AddRoundKey of a round: for every word of mixed, its four bytes
RECURSIVE AddRoundKey(_, _, _, _, _, _)
AddRoundKey(st, idx, ws, round_keys, no_round, wi) ==
    IF ws = <<>> \/ st.result # "Ok" THEN st
    ELSE AddRoundKey(
             PushRoundOut(st, AddRoundKeyWord([rg |-> st.rg, out |-> <<>>, result |-> "Ok"],
                                              idx, Values(Head(ws)), round_keys, no_round,
                                              wi, st.offset, 0)),
             idx, Tail(ws), round_keys, no_round, wi + 1)

\* The region "Assign rounds" of round no_round.
\* The steps of a round take the state st of its region:
\* [rg, subbed, shifted, mixed, v, out, offset, result].
RoundStart ==
    [rg |-> NewRegion("Assign rounds", "encrypt"), subbed |-> <<>>, shifted |-> <<>>,
     mixed |-> <<>>, v |-> <<>>, out |-> <<>>, offset |-> 0, result |-> "Ok"]

\* "2. ShiftRows": let mut offset = 32
RoundShiftRows(st, idx) == ShiftRows([st EXCEPT !.offset = 32], idx, 0)

\* "3. MixColumns", skipped in the last round: let mixed = if no_round == 10 { shifted }
RoundMixColumns(st, idx, no_round) ==
    IF no_round = 10 THEN [st EXCEPT !.mixed = st.shifted]
    ELSE MixColumns(st, idx, st.shifted)

\* "4. AddRoundKey"
RoundAddRoundKey(st, idx, round_keys, no_round) ==
    AddRoundKey(st, idx, st.mixed, round_keys, no_round, 0)

\* round_out = the cells of the region, or its error
RoundDone(es, st) ==
    IF st.result # "Ok" THEN [es EXCEPT !.result = st.result]
    ELSE [es EXCEPT !.regions = Append(@, st.rg), !.round_out = st.out]

\* The region "Assign rounds" of round no_round at region index idx.
RoundRegion(es, idx, no_round) ==
    RoundAddRoundKey(
        RoundMixColumns(RoundShiftRows(SubBytes(RoundStart, idx, es.round_out, 0), idx),
                        idx, no_round),
        idx, es.round_keys, no_round)

Round(es, no_round) == RoundDone(es, RoundRegion(es, Len(es.regions) + 1, no_round))

\* for no_round in 1..11
RECURSIVE Rounds(_, _)
Rounds(es, no_round) ==
    IF no_round >= 11 \/ es.result # "Ok" THEN es
    ELSE Rounds(Round(es, no_round), no_round + 1)

\* key: Option<[u8; 16]>
None == <<>>

Some(x) == <<x>>

\* FixedAes128Config::encrypt: the regions it leaves in the layouter, how it ended,
\* its local round_keys and the cells it returned.  The key schedule is assigned by the call itself.
\* Ok(round_out), or how the call ended
EncryptDone(es) ==
    [regions |-> es.regions, result |-> es.result, round_keys |-> es.round_keys,
     cells |-> IF es.result = "Ok" THEN es.round_out ELSE <<>>]

\* encrypt once `let round_keys = schedule_keys(..)?` has returned ks
EncryptWith(rgs, ks, plaintext) ==
    IF ks.result # "Ok"
    THEN [regions |-> rgs, result |-> ks.result, round_keys |-> <<>>, cells |-> <<>>]
    ELSE EncryptDone(Rounds(InitialAddRoundKey([regions |-> Append(rgs, ks.region),
                                                round_keys |-> ks.words,
                                                round_out |-> <<>>, result |-> "Ok"],
                                               plaintext, 0),
                            1))

encrypt(rgs, k, plaintext) ==
    IF k = None
    THEN [regions |-> rgs, result |-> "panic: Key should be set", round_keys |-> <<>>,
          cells |-> <<>>]
    ELSE EncryptWith(rgs, schedule_keys(Len(rgs) + 1, k[1], "encrypt"), plaintext)

-----------------------------------------------------------------------------
(* Lookup tables.  A loader is modelled by the set of rows its loops       *)
(* assign, given as a predicate on a row.                                  *)

\* src/src/u8_xor_table.rs: for i in 0..u8::MAX { for j in 0..u8::MAX { (i, j, i ^ j) } }
u8_xor_table_load(t) ==
    /\ t[1] \in 0..(U8_MAX - 1)
    /\ t[2] \in 0..(U8_MAX - 1)
    /\ t[3] = XorNat(t[1], t[2])

\* src/src/table/u8_xor.rs: for i in 0..=u8::MAX { for j in 0..=u8::MAX { (i, j, i ^ j) } }
table_u8_xor_load(t) ==
    /\ t[1] \in 0..U8_MAX
    /\ t[2] \in 0..U8_MAX
    /\ t[3] = XorNat(t[1], t[2])

\* src/src/u8_xor_table.rs: the row l at which the loops assign (i, j, i ^ j),
\* l counting the passes of the inner loop, and l after the last pass
u8_xor_table_row(i, j) == i * U8_MAX + j

u8_xor_table_rows == U8_MAX * U8_MAX

\* src/src/table/u8_xor.rs: the same for the inclusive loops
table_u8_xor_row(i, j) == i * (U8_MAX + 1) + j

table_u8_xor_rows == (U8_MAX + 1) * (U8_MAX + 1)

\* U8RangeTableConfig::load: for i in 0..=u8::MAX { (i) }
\* the loop written with an exclusive range, 0..u8::MAX
u8_range_table_load_exclusive(t) == t[1] \in 0..(U8_MAX - 1)

u8_range_table_load(t) == t[1] \in 0..U8_MAX

\* SboxTableConfig::load: one row (x, S_BOX[x]) for every byte x
s_box_table_load(t) == t[1] \in 0..255 /\ t[2] = S_BOX[t[1] + 1]

mul2_table_load(t) == t[1] \in 0..255 /\ t[2] = MUL_BY_2(t[1])

mul3_table_load(t) == t[1] \in 0..255 /\ t[2] = MUL_BY_3(t[1])

\* The rows of each table column set once its loader has run.
TableRows(table, t) ==
    CASE table = "ks.u8_xor"  -> u8_xor_table_load(t)
      [] table = "ks.sbox"    -> s_box_table_load(t)
      [] table = "ks.range"   -> u8_range_table_load(t)
      [] table = "aes.u8_xor" -> table_u8_xor_load(t)
      [] table = "aes.sbox"   -> s_box_table_load(t)
      [] table = "aes.mul2"   -> mul2_table_load(t)
      [] table = "aes.mul3"   -> mul3_table_load(t)

\* A table never loaded has only unassigned (zero) cells.
InTable(lds, table, t) ==
    IF table \in lds THEN TableRows(table, t) ELSE \A k \in 1..Len(t) : t[k] = 0

-----------------------------------------------------------------------------
(* Constraints declared by the configure functions, and their verification *)
(* as MockProver::verify does it on the rows whose selector is enabled.    *)

Adv(col, rot) == [kind |-> "advice", col |-> col, rot |-> rot]

Fix(col, rot) == [kind |-> "fixed", col |-> col, rot |-> rot]

\* Aes128KeyScheduleConfig::configure: for i in 0..4, "Lookup first words of each round"
LookupRoundFirst(k) ==
    [name |-> "Lookup first words of each round", selector |-> "q_round_first",
     table |-> "ks.u8_xor",
     inputs |-> <<Adv("words", k - 16), Adv("rcon", k), Adv("words", k)>>]

\* "Mid words of each round" reading the word before the previous word
\* instead of the word of the previous round
LookupRoundMid_two_back(k) ==
    [name |-> "Mid words of each round", selector |-> "q_round_mid",
     table |-> "ks.u8_xor",
     inputs |-> <<Adv("words", k - 4), Adv("words", k - 8), Adv("words", k)>>]

\* Aes128KeyScheduleConfig::configure: for i in 0..4, "Mid words of each round"
LookupRoundMid(k) ==
    [name |-> "Mid words of each round", selector |-> "q_round_mid",
     table |-> "ks.u8_xor",
     inputs |-> <<Adv("words", k - 4), Adv("words", k - 16), Adv("words", k)>>]

\* the "Sub word" lookup declared on the rows of the first byte only
LookupSubWord_first_byte ==
    [name |-> "Sub word", selector |-> "q_round_first", table |-> "ks.sbox",
     inputs |-> <<Adv("rot", 0), Adv("sub_bytes", 0)>>]

LookupSubWord ==
    [name |-> "Sub word", selector |-> "q_sub_bytes", table |-> "ks.sbox",
     inputs |-> <<Adv("rot", 0), Adv("sub_bytes", 0)>>]

LookupRconWord ==
    [name |-> "Rcon word", selector |-> "q_round_first", table |-> "ks.u8_xor",
     inputs |-> <<Fix("round_constants", 0), Adv("sub_bytes", 0), Adv("rcon", 0)>>]

\* U8RangeCheckConfig::configure(meta, value)
LookupU8RangeCheck(value) ==
    [name |-> "U8 range_check", selector |-> "q_lookup", table |-> "ks.range",
     inputs |-> <<Adv(value, 0)>>]

\* The lookups of the key schedule, in the order configure declares them.
KeyScheduleLookups ==
    <<LookupU8RangeCheck("words"),
      LookupRoundFirst(0), LookupRoundMid(0), LookupRoundFirst(1), LookupRoundMid(1),
      LookupRoundFirst(2), LookupRoundMid(2), LookupRoundFirst(3), LookupRoundMid(3),
      LookupSubWord, LookupRconWord>>

\* Gate "Rotate word": q_rot * (words[r + k] - rot[r + (k + 3) % 4]) for k in 0..4
GateRotateWord ==
    [name |-> "Rotate word", selector |-> "q_rot",
     polys |-> <<<<Adv("words", 0), Adv("rot", 3)>>, <<Adv("words", 1), Adv("rot", 0)>>,
                 <<Adv("words", 2), Adv("rot", 1)>>, <<Adv("words", 3), Adv("rot", 2)>>>>]

KeyScheduleGates == <<GateRotateWord>>

\* The value a query reads at a row of a region; an unassigned cell reads as zero.
Query(rg, q, row) ==
    LET cells == IF q.kind = "advice" THEN rg.adv ELSE rg.fixed
        at    == <<q.col, row + q.rot>>
    IN IF at \in DOMAIN cells THEN cells[at] ELSE 0

RECURSIVE Queries(_, _, _)
Queries(rg, qs, row) ==
    IF qs = <<>> THEN <<>> ELSE <<Query(rg, Head(qs), row)>> \o Queries(rg, Tail(qs), row)

\* VerifyFailure::Lookup { name, lookup_index, location: InRegion { region, offset } }
LookupFailures(rgs, lds, lookups) ==
    UNION { { [kind |-> "Lookup", name |-> lookups[e[1]].name, lookup_index |-> e[1] - 1,
               region |-> <<ri - 1, rgs[ri].name>>, offset |-> e[2][2]]
              : e \in { f \in (1..Len(lookups)) \X rgs[ri].sel :
                          /\ lookups[f[1]].selector = f[2][1]
                          /\ ~InTable(lds, lookups[f[1]].table,
                                      Queries(rgs[ri], lookups[f[1]].inputs, f[2][2])) } }
            : ri \in 1..Len(rgs) }

\* VerifyFailure::ConstraintNotSatisfied of a gate on a row where its selector is on
GateFailures(rgs, gates) ==
    UNION { { [kind |-> "ConstraintNotSatisfied", name |-> gates[e[1]].name,
               region |-> <<ri - 1, rgs[ri].name>>, offset |-> e[2][2]]
              : e \in { f \in (1..Len(gates)) \X rgs[ri].sel :
                          /\ gates[f[1]].selector = f[2][1]
                          /\ \E k \in 1..Len(gates[f[1]].polys) :
                                Query(rgs[ri], gates[f[1]].polys[k][1], f[2][2])
                                    # Query(rgs[ri], gates[f[1]].polys[k][2], f[2][2]) } }
            : ri \in 1..Len(rgs) }

\* VerifyFailure::Permutation: a copy constraint whose two cells differ
PermutationFailures(rgs) ==
    UNION { { [kind |-> "Permutation", region |-> <<ri - 1, rgs[ri].name>>, offset |-> c.to[2]]
              : c \in { d \in rgs[ri].copies :
                          rgs[d.from[1]].adv[<<d.from[2], d.from[3]>>] # rgs[ri].adv[d.to] } }
            : ri \in 1..Len(rgs) }

\* MockProver::verify: the set of failures (empty when the circuit is satisfied)
Verify(rgs, lds, lookups, gates) ==
    LookupFailures(rgs, lds, lookups) \cup GateFailures(rgs, gates) \cup PermutationFailures(rgs)

-----------------------------------------------------------------------------
(* U8 range check: src/src/u8_range_check.rs, src/src/table/u8_range_check.rs *)

\* src/src/u8_range_check.rs, U8RangeCheckConfig::assign(&Value): enables q_lookup
\* at offset 0 and assigns the value there.
range_assign_value(col, v, by) ==
    AssignAdvice(Enable(NewRegion("Assign u8 range_checked value", by), "q_lookup", 0),
                 col, 0, v)

\* src/src/table/u8_range_check.rs, U8RangeCheckConfig::assign(&AssignedCell):
\* enables q_lookup at offset 0 and copies the cell there.
range_assign_cell(col, cell, by) ==
    CopyAdvice(Enable(NewRegion("Assign u8 range_checked value", by), "q_lookup", 0),
               cell, col, 0)

\* for word in words { for byte in word { .. } }: the bytes in the order visited
RECURSIVE Flatten(_)
Flatten(ws) == IF ws = <<>> THEN <<>> ELSE Head(ws) \o Flatten(Tail(ws))

-----------------------------------------------------------------------------
(* Inputs.  A 16-byte block is taken from the family                       *)
(* byte k = (slope * k + offset) mod 256, which holds the all-zero block,  *)
(* the all-0xFF block, 000102..0F and 00112233..FF.                        *)

Slopes == {0, 1, 17}

Offsets == {0, 255}

Block(slope, offset) == [k \in 1..16 |-> (slope * (k - 1) + offset) % 256]

Blocks == {Block(a, b) : a \in Slopes, b \in Offsets}

ZeroBlock == Block(0, 0)

OnesBlock == Block(0, 255)

\* values of variables a circuit does not use
NoOutcome == [result |-> "not called", cells |-> <<>>]

NoSched == [K |-> 0, N |-> 0]

-----------------------------------------------------------------------------
(* The key schedule test circuit: key_schedule.rs, tests::TestCircuit      *)

KsInit ==
    /\ circuit \in {[kind |-> "key_schedule", key |-> k] : k \in Blocks}
    /\ pc = "load u8_xor_table"
    /\ loaded = {}
    /\ regions = <<>>
    /\ words = <<>>
    /\ loop_i = 0
    /\ key = None
    /\ outcome = NoOutcome
    /\ sched = NoSched

\* config.u8_xor_table_config.load(&mut layouter)?
KsLoadU8XorTable ==
    /\ pc = "load u8_xor_table"
    /\ loaded' = loaded \cup {"ks.u8_xor"}
    /\ regions' = Append(regions, NewRegion("load xor table for u8", "synthesize"))
    /\ pc' = "load sbox_table"
    /\ UNCHANGED <<circuit, words, loop_i, key, outcome, sched>>

\* config.sbox_table_config.load(&mut layouter)?
KsLoadSboxTable ==
    /\ pc = "load sbox_table"
    /\ loaded' = loaded \cup {"ks.sbox"}
    /\ regions' = Append(regions, NewRegion("load sbox table", "synthesize"))
    /\ pc' = "load range_table"
    /\ UNCHANGED <<circuit, words, loop_i, key, outcome, sched>>

\* config.range_config.table.load(&mut layouter)?
KsLoadRangeTable ==
    /\ pc = "load range_table"
    /\ loaded' = loaded \cup {"ks.range"}
    /\ regions' = Append(regions, NewRegion("load range table for u8", "synthesize"))
    /\ pc' = "schedule_keys"
    /\ UNCHANGED <<circuit, words, loop_i, key, outcome, sched>>

\* let words = config.schedule_keys(.., self.key)?
KsScheduleKeys ==
    /\ pc = "schedule_keys"
    /\ LET r == schedule_keys(Len(regions) + 1, circuit.key, "synthesize")
       IN /\ regions' = Append(regions, r.region)
          /\ words' = r.words
    /\ loop_i' = 0
    /\ pc' = "range_check"
    /\ UNCHANGED <<circuit, loaded, key, outcome, sched>>

\* The forged witnesses tried: other bytes in the rotated word of round 1,
\* and other bytes 1..3 in the rcon word of round 1.
ForgedWitnesses ==
    {[i |-> 4, part |-> "rot", bytes |-> <<3, 0, 3, 0>>],
     [i |-> 4, part |-> "rcon", bytes |-> <<0, 0, 1, 0>>]}

\* A prover that does not follow schedule_keys: the same region, selectors
\* and fixed cells, with a forged witness in the advice cells.
KsForgedWitness ==
    /\ pc = "schedule_keys"
    /\ \E f \in ForgedWitnesses :
          /\ regions' = Append(regions,
                               forged_schedule(Len(regions) + 1, circuit.key,
                                               "synthesize", f).region)
          /\ words' = forged_schedule(Len(regions) + 1, circuit.key, "synthesize", f).words
    /\ loop_i' = 0
    /\ pc' = "range_check"
    /\ UNCHANGED <<circuit, loaded, key, outcome, sched>>

\* config.range_config.assign(.., &byte)?; i += 1
KsRangeCheck ==
    /\ pc = "range_check"
    /\ loop_i < Len(Flatten(words))
    /\ regions' = Append(regions,
                         range_assign_cell("words", Flatten(words)[loop_i + 1], "synthesize"))
    /\ loop_i' = loop_i + 1
    /\ UNCHANGED <<circuit, pc, loaded, words, key, outcome, sched>>

\* Ok(())
KsReturn ==
    /\ pc = "range_check"
    /\ loop_i = Len(Flatten(words))
    /\ pc' = "done"
    /\ UNCHANGED <<circuit, loaded, regions, words, loop_i, key, outcome, sched>>

KsNext ==
    \/ KsLoadU8XorTable
    \/ KsLoadSboxTable
    \/ KsLoadRangeTable
    \/ KsScheduleKeys
    \/ KsForgedWitness
    \/ KsRangeCheck
    \/ KsReturn

SpecKeySchedule == KsInit /\ [][KsNext]_vars

\* mock.verify() of the synthesized key schedule circuit
KsFailures == Verify(regions, loaded, KeyScheduleLookups, KeyScheduleGates)

\* the 176 cells of the words column, rows 0..175 (mock.advice().get(0), take(176))
KsWordColumn == [r \in 0..175 |-> Query(regions[4], Adv("words", 0), r)]

-----------------------------------------------------------------------------
(* The AES circuit: aes128.rs, tests::TestAesCircuit.  set_key is a call   *)
(* of the embedder, so encrypt is reachable both after it and without it.  *)

\* FixedAes128Config::configure: the lookups on the AES words column
LookupXorBytes ==
    [name |-> "XOR Bytes", selector |-> "aes.q_xor_bytes", table |-> "aes.u8_xor",
     inputs |-> <<Adv("aes.words", 0), Adv("aes.words", 4), Adv("aes.words", 8)>>]

LookupXorAdjacentBytes ==
    [name |-> "XOR Adjacent Bytes", selector |-> "aes.q_xor_adj", table |-> "aes.u8_xor",
     inputs |-> <<Adv("aes.words", 0), Adv("aes.words", 1), Adv("aes.words", 2)>>]

LookupSubBytes ==
    [name |-> "Sub Bytes", selector |-> "aes.q_sub_bytes", table |-> "aes.sbox",
     inputs |-> <<Adv("aes.words", 0), Adv("aes.words", 4)>>]

LookupMulBy2 ==
    [name |-> "Mul by 2", selector |-> "aes.q_mul_by_2", table |-> "aes.mul2",
     inputs |-> <<Adv("aes.words", 0), Adv("aes.words", 1)>>]

LookupMulBy3 ==
    [name |-> "Mul by 3", selector |-> "aes.q_mul_by_3", table |-> "aes.mul3",
     inputs |-> <<Adv("aes.words", 0), Adv("aes.words", 1)>>]

\* The key schedule is configured first, then the lookups of the cipher.
AesLookups ==
    KeyScheduleLookups \o
    <<LookupXorBytes, LookupXorAdjacentBytes, LookupSubBytes, LookupMulBy2, LookupMulBy3>>

Init ==
    /\ circuit \in {[kind |-> "aes", key |-> k, plaintext |-> p] : k \in Blocks, p \in Blocks}
    /\ pc = "load u8_xor_table"
    /\ loaded = {}
    /\ regions = <<>>
    /\ words = <<>>
    /\ loop_i = 0
    /\ key = None
    /\ outcome = NoOutcome
    /\ sched = NoSched

\* config.u8_xor_table_config.load(&mut layouter)?
LoadU8XorTable ==
    /\ pc = "load u8_xor_table"
    /\ loaded' = loaded \cup {"aes.u8_xor"}
    /\ regions' = Append(regions, NewRegion("load xor table for u8", "synthesize"))
    /\ pc' = "load sbox_table"
    /\ UNCHANGED <<circuit, words, loop_i, key, outcome, sched>>

\* config.sbox_table_config.load(&mut layouter)?
LoadSboxTable ==
    /\ pc = "load sbox_table"
    /\ loaded' = loaded \cup {"aes.sbox"}
    /\ regions' = Append(regions, NewRegion("load sbox table", "synthesize"))
    /\ pc' = "load key_schedule"
    /\ UNCHANGED <<circuit, words, loop_i, key, outcome, sched>>

\* config.key_schedule_config.load(&mut layouter): the tables the key
\* schedule looks up in
LoadKeySchedule ==
    /\ pc = "load key_schedule"
    /\ loaded' = loaded \cup {"ks.u8_xor", "ks.sbox", "ks.range"}
    /\ regions' = regions \o <<NewRegion("load xor table for u8", "synthesize"),
                               NewRegion("load sbox table", "synthesize"),
                               NewRegion("load range table for u8", "synthesize")>>
    /\ pc' = "load mul2_table"
    /\ UNCHANGED <<circuit, words, loop_i, key, outcome, sched>>

\* config.mul2_table_config.load(&mut layouter)?
LoadMul2Table ==
    /\ pc = "load mul2_table"
    /\ loaded' = loaded \cup {"aes.mul2"}
    /\ regions' = Append(regions, NewRegion("load mul2 table", "synthesize"))
    /\ pc' = "load mul3_table"
    /\ UNCHANGED <<circuit, words, loop_i, key, outcome, sched>>

\* config.mul3_table_config.load(&mut layouter)?
LoadMul3Table ==
    /\ pc = "load mul3_table"
    /\ loaded' = loaded \cup {"aes.mul3"}
    /\ regions' = Append(regions, NewRegion("load mul3 table", "synthesize"))
    /\ pc' = "set_key"
    /\ UNCHANGED <<circuit, words, loop_i, key, outcome, sched>>

\* FixedAes128Config::set_key
set_key ==
    /\ pc = "set_key"
    /\ key' = Some(circuit.key)
    /\ pc' = "encrypt"
    /\ UNCHANGED <<circuit, loaded, regions, words, loop_i, outcome, sched>>

\* what the call leaves behind; Ok(()) follows when it returned Ok
Returned(e) ==
    /\ regions' = e.regions
    /\ words' = e.round_keys
    /\ outcome' = [result |-> e.result, cells |-> e.cells]
    /\ pc' = IF e.result = "Ok" THEN "done" ELSE "stopped"

\* let val = config.encrypt(layouter, self.plaintext)?
Encrypt ==
    /\ pc \in {"set_key", "encrypt"}
    /\ Returned(encrypt(regions, key, circuit.plaintext))
    /\ UNCHANGED <<circuit, loaded, loop_i, key, sched>>

Next ==
    \/ LoadU8XorTable
    \/ LoadSboxTable
    \/ LoadKeySchedule
    \/ LoadMul2Table
    \/ LoadMul3Table
    \/ set_key
    \/ Encrypt

Spec == Init /\ [][Next]_vars

\* mock.verify() of the synthesized AES circuit
AesFailures == Verify(regions, loaded, AesLookups, KeyScheduleGates)

-----------------------------------------------------------------------------
(* The range check test circuits: u8_range_check.rs and                    *)
(* table/u8_range_check.rs, tests::TestCircuit.  The first assigns the     *)
(* value inside the range check region ("value"), the second assigns it in *)
(* a region of its own and copies the cell ("cell").  A value is a field   *)
(* element, taken here from 0..MaxValue.                                   *)

MaxValue == 257

RcInit ==
    /\ circuit \in {[kind |-> "range_check", variant |-> w, value |-> v] :
                        w \in {"value", "cell"}, v \in 0..MaxValue}
    /\ pc = "load range_table"
    /\ loaded = {}
    /\ regions = <<>>
    /\ words = <<>>
    /\ loop_i = 0
    /\ key = None
    /\ outcome = NoOutcome
    /\ sched = NoSched

\* config.table.load(&mut layouter)?
RcLoadTable ==
    /\ pc = "load range_table"
    /\ loaded' = loaded \cup {"ks.range"}
    /\ regions' = Append(regions, NewRegion("load range table for u8", "synthesize"))
    /\ pc' = IF circuit.variant = "cell" THEN "assign value" ELSE "range_check"
    /\ UNCHANGED <<circuit, words, loop_i, key, outcome, sched>>

\* table/u8_range_check.rs: let assigned_cell = layouter.assign_region(|| "assign value", ..)?
RcAssignValue ==
    /\ pc = "assign value"
    /\ regions' = Append(regions,
                         AssignAdvice(NewRegion("assign value", "synthesize"),
                                      "value", 0, circuit.value))
    /\ words' = <<<<AssignedCell(Len(regions) + 1, "value", 0, circuit.value)>>>>
    /\ pc' = "range_check"
    /\ UNCHANGED <<circuit, loaded, loop_i, key, outcome, sched>>

\* config.assign(layouter, &self.value)?
RcAssign ==
    /\ pc = "range_check"
    /\ circuit.variant = "value"
    /\ regions' = Append(regions, range_assign_value("value", circuit.value, "synthesize"))
    /\ pc' = "done"
    /\ UNCHANGED <<circuit, loaded, words, loop_i, key, outcome, sched>>

\* config.assign(layouter, &assigned_cell)?
RcAssignCell ==
    /\ pc = "range_check"
    /\ circuit.variant = "cell"
    /\ regions' = Append(regions, range_assign_cell("value", words[1][1], "synthesize"))
    /\ pc' = "done"
    /\ UNCHANGED <<circuit, loaded, words, loop_i, key, outcome, sched>>

RcNext ==
    \/ RcLoadTable
    \/ RcAssignValue
    \/ RcAssign
    \/ RcAssignCell

SpecRangeCheck == RcInit /\ [][RcNext]_vars

\* mock.verify() of the synthesized range check circuit
RcFailures == Verify(regions, loaded, <<LookupU8RangeCheck("value")>>, <<>>)

-----------------------------------------------------------------------------
(* The column-group scheduler of FixedAes128Config<K, N>, as main.rs uses  *)
(* it: schedule_key once, then encrypt encrypt_num times.  A group has 2^K *)
(* rows; the key schedule takes KEY_SCHEDULE_ROWS of group 0 and a block   *)
(* takes AES_ROWS of the active group.  sched =                            *)
(* [K, N, AES_ROWS, KEY_SCHEDULE_ROWS, active, counter, blocks, result],   *)
(* blocks being the (group, first row) of every block assigned so far.     *)

MaxK == 3

MaxN == 3

MaxAesRows == 4

MaxKeyScheduleRows == 2

RECURSIVE Pow2(_)
Pow2(k) == IF k = 0 THEN 1 ELSE 2 * Pow2(k - 1)

\* the key schedule rows deducted from every group
GroupBase_every_group(s, g) == s.KEY_SCHEDULE_ROWS

\* rows of a group taken before its first block
GroupBase(s, g) == IF g = 0 THEN s.KEY_SCHEDULE_ROWS ELSE 0

\* remaining_rows_in_active_group
remaining_rows_in_active_group(s) ==
    Pow2(s.K) - GroupBase(s, s.active) - s.counter * s.AES_ROWS

\* the step that advances without resetting the block counter
schedule_block_no_reset(s) ==
    IF remaining_rows_in_active_group(s) >= s.AES_ROWS
    THEN [s EXCEPT !.counter = @ + 1,
                   !.blocks = Append(@, [group |-> s.active,
                                         row |-> GroupBase(s, s.active)
                                                     + s.counter * s.AES_ROWS]),
                   !.result = "Ok"]
    ELSE IF s.active < s.N - 1
    THEN [s EXCEPT !.active = @ + 1,
                   !.counter = @ + 1,
                   !.blocks = Append(@, [group |-> s.active + 1,
                                         row |-> GroupBase(s, s.active + 1)]),
                   !.result = "Ok"]
    ELSE [s EXCEPT !.result = "AES capacity exceeded"]

\* The scheduler's step before an encrypt call: stay, advance or fail.
schedule_block(s) ==
    IF remaining_rows_in_active_group(s) >= s.AES_ROWS
    THEN [s EXCEPT !.counter = @ + 1,
                   !.blocks = Append(@, [group |-> s.active,
                                         row |-> GroupBase(s, s.active)
                                                     + s.counter * s.AES_ROWS]),
                   !.result = "Ok"]
    ELSE IF s.active < s.N - 1
    THEN [s EXCEPT !.active = @ + 1,
                   !.counter = 1,
                   !.blocks = Append(@, [group |-> s.active + 1,
                                         row |-> GroupBase(s, s.active + 1)]),
                   !.result = "Ok"]
    ELSE [s EXCEPT !.result = "AES capacity exceeded"]

\* Parameters under which the key schedule and one block fit in an empty group.
SchedConfigs ==
    {[K |-> k, N |-> n, AES_ROWS |-> a, KEY_SCHEDULE_ROWS |-> ks, active |-> 0,
      counter |-> 0, blocks |-> <<>>, result |-> "not called"] :
        k \in 0..MaxK, n \in 1..MaxN, a \in 1..MaxAesRows, ks \in 0..MaxKeyScheduleRows}

SchedInit ==
    /\ sched \in {c \in SchedConfigs :
                      c.KEY_SCHEDULE_ROWS <= Pow2(c.K) /\ c.AES_ROWS <= Pow2(c.K)}
    /\ circuit = [kind |-> "bench"]
    /\ pc = "schedule_key"
    /\ loaded = {}
    /\ regions = <<>>
    /\ words = <<>>
    /\ loop_i = 0
    /\ key = None
    /\ outcome = NoOutcome

\* config.schedule_key(&mut layouter, self.key)?
SchedScheduleKey ==
    /\ pc = "schedule_key"
    /\ key' = Some(ZeroBlock)
    /\ pc' = "encrypt"
    /\ UNCHANGED <<circuit, loaded, regions, words, loop_i, outcome, sched>>

\* config.encrypt(&mut layouter, self.plaintext)?: the loop of main.rs ends at
\* the first call that fails
SchedEncrypt ==
    /\ pc = "encrypt"
    /\ sched' = schedule_block(sched)
    /\ loop_i' = loop_i + 1
    /\ pc' = IF sched'.result = "Ok" THEN "encrypt" ELSE "stopped"
    /\ UNCHANGED <<circuit, loaded, regions, words, key, outcome>>

SchedNext ==
    \/ SchedScheduleKey
    \/ SchedEncrypt

SpecScheduler == SchedInit /\ [][SchedNext]_vars

-----------------------------------------------------------------------------
(* The reference the claims compare with: AES-128 of FIPS-197, on blocks   *)
(* of 16 bytes in the order of the input (column-major state).             *)

Fips197Rcon == <<1, 2, 4, 8, 16, 32, 64, 128, 27, 54>>

\* KeyExpansion: w holds words 0..i-1 and is extended to 44 words
RECURSIVE Fips197Expand(_, _)
Fips197Expand(w, i) ==
    IF i >= 44 \/ Len(w) # i THEN w
    ELSE LET prev == w[i]
             temp == IF i % 4 = 0
                     THEN <<XorNat(S_BOX[prev[2] + 1], Fips197Rcon[i \div 4]),
                            S_BOX[prev[3] + 1], S_BOX[prev[4] + 1], S_BOX[prev[1] + 1]>>
                     ELSE prev
             back == w[i - 3]
         IN Fips197Expand(Append(w, <<XorNat(back[1], temp[1]), XorNat(back[2], temp[2]),
                                      XorNat(back[3], temp[3]), XorNat(back[4], temp[4])>>),
                          i + 1)

Fips197KeyExpansion(K) ==
    Fips197Expand(<<<<K[1], K[2], K[3], K[4]>>, <<K[5], K[6], K[7], K[8]>>,
                    <<K[9], K[10], K[11], K[12]>>, <<K[13], K[14], K[15], K[16]>>>>, 4)

Fips197RoundKey(w, r) == w[4 * r + 1] \o w[4 * r + 2] \o w[4 * r + 3] \o w[4 * r + 4]

RECURSIVE Fips197Xor(_, _)
Fips197Xor(a, b) ==
    IF a = <<>> THEN <<>>
    ELSE <<XorNat(Head(a), Head(b))>> \o Fips197Xor(Tail(a), Tail(b))

RECURSIVE Fips197SubBytes(_)
Fips197SubBytes(s) ==
    IF s = <<>> THEN <<>> ELSE <<S_BOX[Head(s) + 1]>> \o Fips197SubBytes(Tail(s))

Fips197ShiftRows(s) ==
    <<s[1], s[6], s[11], s[16], s[5], s[10], s[15], s[4],
      s[9], s[14], s[3], s[8], s[13], s[2], s[7], s[12]>>

Fips197Xor4(a, b, c, d) == XorNat(XorNat(a, b), XorNat(c, d))

Fips197MixColumn(a) ==
    <<Fips197Xor4(MUL_BY_2(a[1]), MUL_BY_3(a[2]), a[3], a[4]),
      Fips197Xor4(a[1], MUL_BY_2(a[2]), MUL_BY_3(a[3]), a[4]),
      Fips197Xor4(a[1], a[2], MUL_BY_2(a[3]), MUL_BY_3(a[4])),
      Fips197Xor4(MUL_BY_3(a[1]), a[2], a[3], MUL_BY_2(a[4]))>>

Fips197MixColumns(s) ==
    Fips197MixColumn(SubSeq(s, 1, 4)) \o Fips197MixColumn(SubSeq(s, 5, 8))
        \o Fips197MixColumn(SubSeq(s, 9, 12)) \o Fips197MixColumn(SubSeq(s, 13, 16))

RECURSIVE Fips197Rounds(_, _, _)
Fips197Rounds(s, w, r) ==
    IF Len(s) # 16 THEN <<>>
    ELSE IF r = 10
    THEN Fips197Xor(Fips197ShiftRows(Fips197SubBytes(s)), Fips197RoundKey(w, 10))
    ELSE Fips197Rounds(Fips197Xor(Fips197MixColumns(Fips197ShiftRows(Fips197SubBytes(s))),
                                  Fips197RoundKey(w, r)),
                       w, r + 1)

Fips197CipherWith(w, P) ==
    Fips197Rounds(Fips197Xor(<<P[1], P[2], P[3], P[4], P[5], P[6], P[7], P[8], P[9], P[10],
                               P[11], P[12], P[13], P[14], P[15], P[16]>>,
                             Fips197RoundKey(w, 0)),
                  w, 1)

Fips197Cipher(K, P) == Fips197CipherWith(Fips197KeyExpansion(K), P)

-----------------------------------------------------------------------------
(* Claims.                                                                 *)

\* encrypt was called after set_key and the call is over
EncryptedWithKey == pc \in {"done", "stopped"} /\ key # None

\* C1: after set_key(K), the 16 cells that encrypt(P) returns hold, in order, the
\* bytes of the reference AES-128 encryption of P under K.
C1_EncryptIsReferenceAes ==
    EncryptedWithKey =>
        /\ outcome.result = "Ok"
        /\ Values(outcome.cells) = Fips197Cipher(circuit.key, circuit.plaintext)

\* C2: the 44 words that schedule_keys(K) assigns into rows 0..175 of the words
\* column (word i at rows 4i..4i+3) are the FIPS-197 key expansion of K; byte j of
\* word i, i < 4, is K[4i+j].
C2_ScheduleIsFips197Expansion ==
    pc \in {"range_check", "done"} =>
        /\ Len(words) = 44
        /\ \A wi \in 0..43 : \A j \in 0..3 :
               /\ KsWordColumn[4 * wi + j] = Fips197KeyExpansion(circuit.key)[wi + 1][j + 1]
               /\ words[wi + 1][j + 1].val = KsWordColumn[4 * wi + j]

\* C3: the witness of table loads, set_key and encrypt satisfies every enabled
\* lookup, gate and copy constraint, and encrypt ends without a panic or an Err.
C3_EncryptWitnessSatisfied ==
    EncryptedWithKey => (outcome.result = "Ok" /\ AesFailures = {})

\* C4: for the all-zero key and the all-0xFF key the witness of schedule_keys
\* satisfies every enabled key schedule constraint against the loaded tables.
C4_KeyScheduleConstraintsHold ==
    (pc = "done" /\ circuit.key \in {ZeroBlock, OnesBlock}) => KsFailures = {}

\* C5: the round keys handed to encrypt are 11 groups of 16 byte cells, so every
\* access round_keys[r][4i+j] of encrypt is in bounds.
C5_RoundKeyTableShape ==
    EncryptedWithKey =>
        /\ Len(words) = 11
        /\ \A r \in 1..Len(words) : Len(words[r]) = 16
        /\ outcome.result # "panic: index out of bounds"

\* C6: the round-key cells are created once per proof: an encrypt call assigns no
\* key schedule region of its own.
C6_KeyScheduleNotPerEncrypt ==
    \A n \in 1..Len(regions) : regions[n].name = "Assign words" => regions[n].by # "encrypt"

\* C7: encrypt without a prior set_key fails with the error "keys not scheduled",
\* reported to the caller, and assigns no cell.
C7_EncryptWithoutKeyIsErr ==
    (pc \in {"done", "stopped"} /\ key = None) =>
        /\ outcome.result = "Err: keys not scheduled"
        /\ \A n \in 1..Len(regions) : regions[n].by # "encrypt"

\* every block lies in the rows of one group: after the key schedule in group 0,
\* before the end of the group's 2^K rows
BlockInsideGroup(s, b) ==
    /\ b.group \in 0..(s.N - 1)
    /\ b.row >= GroupBase(s, b.group)
    /\ b.row + s.AES_ROWS <= Pow2(s.K)

\* the step the scheduler takes before an encrypt call, from s to t
SchedulerRule(s, t) ==
    IF remaining_rows_in_active_group(s) >= s.AES_ROWS
    THEN t.active = s.active /\ t.counter = s.counter + 1 /\ t.result = "Ok"
    ELSE IF s.active < s.N - 1
    THEN t.active = s.active + 1 /\ t.counter = 1 /\ t.result = "Ok"
    ELSE t.active = s.active /\ t.blocks = s.blocks /\ t.result = "AES capacity exceeded"

C10_RangeCheckIffU8 ==
    pc = "done" =>
        IF circuit.value \in 0..255
        THEN RcFailures = {}
        ELSE RcFailures =
                 {[kind |-> "Lookup", name |-> "U8 range_check", lookup_index |-> 0,
                   region |-> <<IF circuit.variant = "cell" THEN 2 ELSE 1,
                                "Assign u8 range_checked value">>,
                   offset |-> 0]}

C10_Witness ==
    /\ pc = "done"
    /\ circuit.value = 256
    /\ circuit.variant = "cell"
    /\ Cardinality(RcFailures) = 1

-----------------------------------------------------------------------------
(* The shared tagged lookup table: src/src/table.rs.  A row of the table   *)
(* has the four cells (tag, x, y, z); a table cell assignment is           *)
(* <<column, row, value>> with the columns tables[0..3] numbered 0..3.     *)

\* enum Tag { U8 = 1, Xor = 2, Sbox = 3, GfMul2 = 4, GfMul3 = 5 }
Tag == [U8 |-> 1, Xor |-> 2, Sbox |-> 3, GfMul2 |-> 4, GfMul3 |-> 5]

\* One pass of a loop body: table.assign_cell(.., tables[c], pos, ..)? for c = 0, 1, 2, 3
AssignRow(pos, tag, x, y, z) ==
    <<<<0, pos, tag>>, <<1, pos, x>>, <<2, pos, y>>, <<3, pos, z>>>>

\* for i in 0..=u8::MAX { let pos = (i as usize) + offset; (Tag::U8, i, 0, 0) }
U8Slice(offset) == [n \in 1..(U8_MAX + 1) |-> AssignRow((n - 1) + offset, Tag.U8, n - 1, 0, 0)]

\* the S-box loop reading the dictionary one entry further: S_BOX[(i + 1) % 256]
SboxSlice_next_entry(offset) ==
    [n \in 1..256 |-> AssignRow(offset + (n - 1), Tag.Sbox, n - 1, S_BOX[(n % 256) + 1], 0)]

\* for i in 0..256 { let pos = offset + i; (Tag::Sbox, i, S_BOX[i], 0) }
SboxSlice(offset) == [n \in 1..256 |-> AssignRow(offset + (n - 1), Tag.Sbox, n - 1, S_BOX[n], 0)]

\* the XOR loop with the row taken from the outer index only: l = offset + i
XorSlice_row_per_i(offset) ==
    [n \in 1..((U8_MAX + 1) * (U8_MAX + 1)) |->
        AssignRow(offset + ((n - 1) \div (U8_MAX + 1)), Tag.Xor,
                  (n - 1) \div (U8_MAX + 1), (n - 1) % (U8_MAX + 1),
                  XorNat((n - 1) \div (U8_MAX + 1), (n - 1) % (U8_MAX + 1)))]

\* let mut l = offset; for i in 0..=u8::MAX { for j in 0..=u8::MAX {
\*     (Tag::Xor, i, j, i ^ j) at row l; l += 1 } }
\* The n-th pass of the inner body has i = (n - 1) / 256, j = (n - 1) % 256, l = offset + n - 1.
XorSlice(offset) ==
    [n \in 1..((U8_MAX + 1) * (U8_MAX + 1)) |->
        AssignRow(offset + (n - 1), Tag.Xor,
                  (n - 1) \div (U8_MAX + 1), (n - 1) % (U8_MAX + 1),
                  XorNat((n - 1) \div (U8_MAX + 1), (n - 1) % (U8_MAX + 1)))]

\* for i in 0..256 { (Tag::GfMul2, i, MUL_BY_2[i], 0) at row offset + i }
Mul2Slice(offset) ==
    [n \in 1..256 |-> AssignRow(offset + (n - 1), Tag.GfMul2, n - 1, MUL_BY_2(n - 1), 0)]

\* for i in 0..256 { (Tag::GfMul3, i, MUL_BY_3[i], 0) at row offset + i }
Mul3Slice(offset) ==
    [n \in 1..256 |-> AssignRow(offset + (n - 1), Tag.GfMul3, n - 1, MUL_BY_3(n - 1), 0)]

\* the "Add empty row" step left out
ZeroRow_skipped(offset) == <<>>

\* tables.iter().for_each(|&col| table.assign_cell(.., col, offset, 0).expect(..))
ZeroRow(offset) == <<AssignRow(offset, 0, 0, 0, 0)>>

\* load_enc_full_table: the passes of the five loops and of the "Add empty row"
\* step, in program order, with offset advanced by 256, 256, 65536, 256, 256.
load_enc_full_table ==
    U8Slice(0) \o SboxSlice(256) \o XorSlice(256 + 256) \o Mul2Slice(256 + 256 + 65536)
        \o Mul3Slice(256 + 256 + 65536 + 256) \o ZeroRow(256 + 256 + 65536 + 256 + 256)

\* The row (tag, x, y, z) that one pass assigns.
RowOf(w) == <<w[1][3], w[2][3], w[3][3], w[4][3]>>

\* The rows of the table with the S-box row for input 0 given the output out
\* (out = S_BOX[0] is the table as loaded), and their (tag, x, y) columns.
FullTable(out) ==
    [tag_x_y_z |-> { IF RowOf(load_enc_full_table[n]) = <<Tag.Sbox, 0, S_BOX[1], 0>>
                       THEN <<Tag.Sbox, 0, out, 0>>
                       ELSE RowOf(load_enc_full_table[n]) : n \in DOMAIN load_enc_full_table },
     tag_x_y   |-> { IF RowOf(load_enc_full_table[n]) = <<Tag.Sbox, 0, S_BOX[1], 0>>
                       THEN <<Tag.Sbox, 0, out>>
                       ELSE SubSeq(RowOf(load_enc_full_table[n]), 1, 3)
                         : n \in DOMAIN load_enc_full_table }]

\* The outputs tried for the S-box row of input 0: S_BOX[0] itself, then two others.
SboxZeroOutputs == <<S_BOX[1], 0, S_BOX[2]>>

FullTables == <<FullTable(SboxZeroOutputs[1]), FullTable(SboxZeroOutputs[2]),
                FullTable(SboxZeroOutputs[3])>>

-----------------------------------------------------------------------------
(* The chips over the tagged table: src/src/chips.  Each configure declares *)
(* one lookup; its inputs are the selector times a constant or an advice    *)
(* query, so on a row where the selector is off every input is zero.        *)

Con(v) == [kind |-> "constant", val |-> v]

\* U8RangeCheckChip::configure: vec![(q * x, table_config.value)]
LookupRangeCheckChip ==
    [name |-> "Range check u8 value", selector |-> "q_range", table |-> "ks.range",
     inputs |-> <<Adv("x", 0)>>]

\* U8XorChip::configure: (q * Tag::Xor, tag_tab), (q * x, x_tab), (q * y, y_tab), (q * z, z_tab)
LookupXorChip ==
    [name |-> "Check correct XOR of u8 values", selector |-> "q_xor", table |-> "tag_x_y_z",
     inputs |-> <<Con(Tag.Xor), Adv("x", 0), Adv("y", 0), Adv("z", 0)>>]

\* the S-box lookup declared under the selector of the mul-by-2 chip
LookupSboxChip_on_q_mul2 ==
    [name |-> "Check correct Sbox substitution", selector |-> "q_mul2", table |-> "tag_x_y",
     inputs |-> <<Con(Tag.Sbox), Adv("x", 0), Adv("y", 0)>>]

\* SboxChip::configure: (q * Tag::Sbox, tag_tab), (q * x, x_tab), (q * y, y_tab)
LookupSboxChip ==
    [name |-> "Check correct Sbox substitution", selector |-> "q_sbox", table |-> "tag_x_y",
     inputs |-> <<Con(Tag.Sbox), Adv("x", 0), Adv("y", 0)>>]

\* define_mul_chip!(MulBy2Chip, .., 2, Tag::GfMul2) and (MulBy3Chip, .., 3, Tag::GfMul3):
\* (q * $tag, tag_tab), (q * x, x_tab), (q * y, y_tab)
LookupMulChip(selector, tag) ==
    [name |-> "Check correct gf mul by $n", selector |-> selector, table |-> "tag_x_y",
     inputs |-> <<Con(tag), Adv("x", 0), Adv("y", 0)>>]

\* The lookups of the five chips and the tag each chip stands for.
ChipLookups ==
    <<LookupRangeCheckChip, LookupXorChip, LookupSboxChip,
      LookupMulChip("q_mul2", Tag.GfMul2), LookupMulChip("q_mul3", Tag.GfMul3)>>

ChipTags == <<Tag.U8, Tag.Xor, Tag.Sbox, Tag.GfMul2, Tag.GfMul3>>

\* U8RangeCheckChip::range_check(layouter, x)
range_check(x, by) ==
    CopyAdvice(Enable(NewRegion("Enable selector for checked value", by), "q_range", 0),
               x, "x", 0)

\* U8XorChip::xor(layouter, x, y)
xor(x, y, by) ==
    AssignAdvice(CopyAdvice(CopyAdvice(Enable(NewRegion("", by), "q_xor", 0), x, "x", 0),
                            y, "y", 0),
                 "z", 0, xor_bytes(x.val, y.val))

\* SboxChip::substitute(layouter, x)
substitute(x, by) ==
    AssignAdvice(CopyAdvice(Enable(NewRegion("", by), "q_sbox", 0), x, "x", 0),
                 "y", 0, sub_byte(x.val))

\* MulBy2Chip::mul(layouter, x)
mul2(x, by) ==
    AssignAdvice(CopyAdvice(Enable(NewRegion("", by), "q_mul2", 0), x, "x", 0),
                 "y", 0, MUL_BY_2(x.val))

\* the mul-by-3 operation reading its output from the mul-by-2 dictionary
mul3_with_mul2_dict(x, by) ==
    AssignAdvice(CopyAdvice(Enable(NewRegion("", by), "q_mul3", 0), x, "x", 0),
                 "y", 0, MUL_BY_2(x.val))

\* MulBy3Chip::mul(layouter, x)
mul3(x, by) ==
    AssignAdvice(CopyAdvice(Enable(NewRegion("", by), "q_mul3", 0), x, "x", 0),
                 "y", 0, MUL_BY_3(x.val))

\* The inputs of a lookup at a row: selector * expression
RECURSIVE Selected(_, _, _, _)
Selected(rg, on, qs, row) ==
    IF qs = <<>> THEN <<>>
    ELSE <<IF ~on THEN 0
           ELSE IF Head(qs).kind = "constant" THEN Head(qs).val
           ELSE Query(rg, Head(qs), row)>> \o Selected(rg, on, Tail(qs), row)

LookedUp(rg, l, row) == Selected(rg, <<l.selector, row>> \in rg.sel, l.inputs, row)

\* The rows a region has cells or selectors on.
RegionRows(rg) == {c[2] : c \in DOMAIN rg.adv} \cup {s[2] : s \in rg.sel}

\* Membership of a tuple in the table columns a chip looks up, v the table variant.
ChipInTable(lds, v, table, t) ==
    IF table = "ks.range" THEN InTable(lds, table, t)
    ELSE IF "enc.full" \in lds THEN t \in FullTables[v][table]
    ELSE \A k \in 1..Len(t) : t[k] = 0

\* MockProver::verify for the chip lookups: every row is checked, the rows
\* with the selector off included.
ChipLookupFailures(rgs, lds, v, lookups) ==
    UNION { { [kind |-> "Lookup", name |-> lookups[e[1]].name, lookup_index |-> e[1] - 1,
               region |-> <<ri - 1, rgs[ri].name>>, offset |-> e[2]]
              : e \in { f \in (1..Len(lookups)) \X RegionRows(rgs[ri]) :
                          ~ChipInTable(lds, v, lookups[f[1]].table,
                                       LookedUp(rgs[ri], lookups[f[1]], f[2])) } }
            : ri \in 1..Len(rgs) }

-----------------------------------------------------------------------------
(* A circuit over the chips, laid out as main.rs lays out its circuit: the *)
(* table is loaded first, then the input bytes are assigned, then one chip *)
(* operation runs.  circuit.table selects the S-box row for input 0 from   *)
(* SboxZeroOutputs; 1 is the table as load_enc_full_table writes it.       *)
(* circuit.fault names the call into the proof system that returns an      *)
(* error, if any: the table cell assignments of one pass of the loader, or *)
(* one step (enable, copy, assign) of the chip operation.                  *)

ChipBytes == {0, 1, 255}

NoFault == <<"none", 0>>

Faults ==
    {NoFault, <<"table", 1>>, <<"table", 257>>, <<"table", 513>>, <<"table", 66049>>,
     <<"table", 66305>>, <<"table", 66561>>, <<"chip", 1>>, <<"chip", 2>>, <<"chip", 3>>}

\* How load_enc_full_table ends when table.assign_cell fails in pass n (n = 0:
\* it never fails): the loops pass the error on with `?`, the "Add empty row"
\* step calls .expect("Should success to assign cell") on it.
TableLoadResult(n) ==
    IF n = 0 \/ n > Len(load_enc_full_table) THEN "Ok"
    ELSE IF n <= Len(load_enc_full_table) - Len(ZeroRow(0)) THEN "Err(Synthesis)"
    ELSE "panic: Should success to assign cell"

\* How a chip operation ends when its step n fails: q.enable(..)?, copy_advice(..)?
\* and the Result of assign_advice returned through assign_region(..)?
ChipOpResult(rg, n) ==
    IF n = 0 \/ n > Cardinality(rg.sel) + Cardinality(DOMAIN rg.adv) THEN "Ok"
    ELSE "Err(Synthesis)"

\* the fault of the circuit, 0 when it is not in the given part
FaultIn(part) == IF circuit.fault[1] = part THEN circuit.fault[2] ELSE 0

Chips == {"u8_range_check", "u8_xor", "sbox", "mul2", "mul3"}

ChInit ==
    /\ circuit \in {[kind |-> "chips", chip |-> c, x |-> x, y |-> y, table |-> v,
                     fault |-> f] :
                        c \in Chips, x \in ChipBytes, y \in ChipBytes,
                        v \in 1..Len(SboxZeroOutputs), f \in Faults}
    /\ pc = "load table"
    /\ loaded = {}
    /\ regions = <<>>
    /\ words = <<>>
    /\ loop_i = 0
    /\ key = None
    /\ outcome = NoOutcome
    /\ sched = NoSched

\* load_enc_full_table(&mut layouter, config.tables)?
ChLoadTable ==
    /\ pc = "load table"
    /\ IF TableLoadResult(FaultIn("table")) = "Ok"
       THEN /\ loaded' = loaded \cup {"enc.full", "ks.range"}
            /\ regions' = Append(regions, NewRegion("Assign full table", "synthesize"))
            /\ pc' = "assign inputs"
            /\ UNCHANGED outcome
       ELSE /\ outcome' = [result |-> TableLoadResult(FaultIn("table")), cells |-> <<>>]
            /\ pc' = "stopped"
            /\ UNCHANGED <<loaded, regions>>
    /\ UNCHANGED <<circuit, words, loop_i, key, sched>>

\* The input bytes are assigned in a region of their own, on the advice
\* columns the chips use, with no selector enabled.
ChAssignInputs ==
    /\ pc = "assign inputs"
    /\ regions' = Append(regions,
                         AssignAdvice(AssignAdvice(NewRegion("assign inputs", "synthesize"),
                                                   "x", 0, circuit.x),
                                      "y", 0, circuit.y))
    /\ words' = <<<<AssignedCell(Len(regions) + 1, "x", 0, circuit.x),
                    AssignedCell(Len(regions) + 1, "y", 0, circuit.y)>>>>
    /\ pc' = "chip"
    /\ UNCHANGED <<circuit, loaded, loop_i, key, outcome, sched>>

\* the chip operation returns the cells of the columns ret of its region
\* (Ok(z), Ok(y), or Ok(()) with no cell) and Ok(()) of synthesize follows,
\* or it returns its error
ChDone(rg, ret) ==
    /\ IF ChipOpResult(rg, FaultIn("chip")) = "Ok"
       THEN /\ regions' = Append(regions, rg)
            /\ pc' = "done"
            /\ outcome' = [result |-> "Ok",
                           cells |-> [k \in 1..Len(ret) |->
                                        AssignedCell(Len(regions) + 1, ret[k], 0,
                                                     rg.adv[<<ret[k], 0>>])]]
       ELSE /\ outcome' = [result |-> ChipOpResult(rg, FaultIn("chip")), cells |-> <<>>]
            /\ pc' = "stopped"
            /\ UNCHANGED regions
    /\ UNCHANGED <<circuit, loaded, words, loop_i, key, sched>>

ChRangeCheck ==
    /\ pc = "chip" /\ circuit.chip = "u8_range_check"
    /\ ChDone(range_check(words[1][1], "synthesize"), <<>>)

ChXor ==
    /\ pc = "chip" /\ circuit.chip = "u8_xor"
    /\ ChDone(xor(words[1][1], words[1][2], "synthesize"), <<"z">>)

ChSubstitute ==
    /\ pc = "chip" /\ circuit.chip = "sbox"
    /\ ChDone(substitute(words[1][1], "synthesize"), <<"y">>)

ChMul2 ==
    /\ pc = "chip" /\ circuit.chip = "mul2"
    /\ ChDone(mul2(words[1][1], "synthesize"), <<"y">>)

ChMul3 ==
    /\ pc = "chip" /\ circuit.chip = "mul3"
    /\ ChDone(mul3(words[1][1], "synthesize"), <<"y">>)

ChNext ==
    \/ ChLoadTable
    \/ ChAssignInputs
    \/ ChRangeCheck
    \/ ChXor
    \/ ChSubstitute
    \/ ChMul2
    \/ ChMul3

SpecChips == ChInit /\ [][ChNext]_vars

\* mock.verify() of the synthesized chip circuit
ChFailures ==
    ChipLookupFailures(regions, loaded, circuit.table, ChipLookups)
        \cup PermutationFailures(regions)

-----------------------------------------------------------------------------
(* Claims about the tagged table and the chips, under SpecChips            *)

\* The tag of the slice a table row lies in, by the row ranges of the layout.
SliceOfRow(pos) ==
    IF pos <= 255 THEN Tag.U8
    ELSE IF pos <= 511 THEN Tag.Sbox
    ELSE IF pos <= 66047 THEN Tag.Xor
    ELSE IF pos <= 66303 THEN Tag.GfMul2
    ELSE IF pos <= 66559 THEN Tag.GfMul3
    ELSE 0

\* The passes of load_enc_full_table write the rows 0, 1, .., 66560 in that
\* order, each pass the four columns of its row, each row with the tag of
\* its slice; no cell is assigned twice and no two rows are equal.
FullTableLayout ==
    /\ Len(load_enc_full_table) = 66561
    /\ \A n \in DOMAIN load_enc_full_table :
          /\ \A c \in 1..4 : /\ load_enc_full_table[n][c][1] = c - 1
                             /\ load_enc_full_table[n][c][2] = n - 1
          /\ load_enc_full_table[n][1][3] = SliceOfRow(n - 1)
    /\ { <<load_enc_full_table[n][c][1], load_enc_full_table[n][c][2]>> :
            n \in DOMAIN load_enc_full_table, c \in 1..4 } = (0..3) \X (0..66560)
    /\ RowOf(load_enc_full_table[66561]) = <<0, 0, 0, 0>>
    /\ Cardinality({ RowOf(load_enc_full_table[n]) : n \in DOMAIN load_enc_full_table })
          = 256 + 256 + 65536 + 256 + 256 + 1

\* C11: once load_enc_full_table has run, the table has the slices U8,
\* S-box, XOR, mul-by-2, mul-by-3 and the zero row on the row ranges 0..255,
\* 256..511, 512..66047, 66048..66303, 66304..66559 and 66560, written in
\* that order, every cell of every row assigned exactly once, and one row
\* per entry.
C11_TableLayout == "enc.full" \in loaded => FullTableLayout

C11_Witness == "enc.full" \in loaded /\ pc = "assign inputs" /\ circuit.table = 1

\* What the tag of a row says about the row.
TagFixesRow(r) ==
    CASE r[1] = Tag.U8     -> r[2] \in 0..255 /\ r[3] = 0 /\ r[4] = 0
      [] r[1] = Tag.Xor    -> r[2] \in 0..255 /\ r[3] \in 0..255 /\ r[4] = XorNat(r[2], r[3])
      [] r[1] = Tag.Sbox   -> r[2] \in 0..255 /\ r[3] = S_BOX[r[2] + 1] /\ r[4] = 0
      [] r[1] = Tag.GfMul2 -> r[2] \in 0..255 /\ r[3] = MUL_BY_2(r[2]) /\ r[4] = 0
      [] r[1] = Tag.GfMul3 -> r[2] \in 0..255 /\ r[3] = MUL_BY_3(r[2]) /\ r[4] = 0
      [] OTHER             -> r = <<0, 0, 0, 0>>

\* The passes that write a row with the given tag.
PassesWithTag(tag) == { n \in DOMAIN load_enc_full_table : load_enc_full_table[n][1][3] = tag }

TagFixesMeaning ==
    /\ \A n \in DOMAIN load_enc_full_table : TagFixesRow(RowOf(load_enc_full_table[n]))
    /\ { load_enc_full_table[n][1][3] : n \in DOMAIN load_enc_full_table } \ {0}
          = {Tag.U8, Tag.Xor, Tag.Sbox, Tag.GfMul2, Tag.GfMul3}
    /\ <<Tag.U8, Tag.Xor, Tag.Sbox, Tag.GfMul2, Tag.GfMul3>> = <<1, 2, 3, 4, 5>>
    /\ \A tag \in {Tag.U8, Tag.Sbox, Tag.GfMul2, Tag.GfMul3} :
          /\ { load_enc_full_table[n][2][3] : n \in PassesWithTag(tag) } = 0..255
          /\ Cardinality(PassesWithTag(tag)) = 256
    /\ { <<load_enc_full_table[n][2][3], load_enc_full_table[n][3][3]>> :
            n \in PassesWithTag(Tag.Xor) } = (0..255) \X (0..255)
    /\ Cardinality(PassesWithTag(Tag.Xor)) = 65536

\* C12: in the table load_enc_full_table writes, a row with tag 1 is
\* (1, x, 0, 0), with tag 2 (2, x, y, x XOR y), with tag 3, 4, 5
\* (tag, x, Sbox[x] / MulBy2[x] / MulBy3[x], 0); every x of 0..255 has one
\* row under each of the tags 1, 3, 4, 5 and every pair (x, y) has one row
\* under tag 2; no other tag is used.
C12_TagFixesMeaning == "enc.full" \in loaded => TagFixesMeaning

C12_Witness == "enc.full" \in loaded /\ pc = "done" /\ circuit.table = 1

\* C13: on every row where a chip's selector is on, the tuple the chip looks
\* up is its own tag followed by its bytes, (U8, b), (XOR, x, y, z),
\* (Sbox, x, y), (GfMul2, x, y), (GfMul3, x, y), so that only a table row
\* carrying that tag can match it.
C13_ChipLooksUpOwnTag ==
    \A ri \in 1..Len(regions), k \in 1..Len(ChipLookups) :
        \A row \in RegionRows(regions[ri]) :
            (circuit.kind = "chips" /\ <<ChipLookups[k].selector, row>> \in regions[ri].sel)
                => /\ Len(ChipLookups[k].inputs) >= 2
                   /\ LookedUp(regions[ri], ChipLookups[k], row)[1] = ChipTags[k]

\* C14: on every row where a chip's selector is off, the tuple of that
\* chip's lookup is all zeros whatever the advice cells of the row hold, and
\* the all-zero tuple is in the table columns the chip looks up, so the row
\* causes no lookup failure.
C14_DisabledRowNeverFails ==
    \A ri \in 1..Len(regions), k \in 1..Len(ChipLookups) :
        \A row \in RegionRows(regions[ri]) :
            <<ChipLookups[k].selector, row>> \notin regions[ri].sel
                => /\ \A j \in 1..Len(ChipLookups[k].inputs) :
                          LookedUp(regions[ri], ChipLookups[k], row)[j] = 0
                   /\ ChipInTable(loaded, circuit.table, ChipLookups[k].table,
                                  LookedUp(regions[ri], ChipLookups[k], row))
                   /\ \A f \in ChFailures :
                          ~(f.lookup_index = k - 1 /\ f.region[1] = ri - 1 /\ f.offset = row)

\* a chip has run on non-zero bytes: the input row and the chip row both have
\* non-zero advice cells under selectors that are off
C14_Witness ==
    /\ pc = "done" /\ "enc.full" \in loaded
    /\ circuit.chip = "sbox" /\ circuit.x = 255 /\ circuit.y = 255
    /\ regions[2].sel = {} /\ regions[2].adv[<<"x", 0>>] = 255
    /\ <<"q_xor", 0>> \notin regions[3].sel /\ regions[3].adv[<<"y", 0>>] = sub_byte(255)

\* The S-box chip has a row with its selector on and the input byte 0.
SboxRowWithInputZero ==
    \E ri \in 1..Len(regions) : \E row \in RegionRows(regions[ri]) :
        <<"q_sbox", row>> \in regions[ri].sel /\ Query(regions[ri], Adv("x", 0), row) = 0

C18_SynthesisErrorReturned ==
    /\ (pc = "stopped" /\ circuit.kind = "chips") => outcome.result = "Err(Synthesis)"
    /\ (pc = "done" /\ circuit.kind = "chips")
          => /\ TableLoadResult(FaultIn("table")) = "Ok"
             /\ ChipOpResult(regions[Len(regions)], FaultIn("chip")) = "Ok"

-----------------------------------------------------------------------------
(* Claims about encrypt and the key schedule, under Spec and SpecKeySchedule *)

\* The cells a word table holds, as <<region, column, row>>.
CellsOf(ws) == { <<ws[i][j].region, ws[i][j].col, ws[i][j].row>> : i \in DOMAIN ws, j \in 1..4 }

\* The regions first .. Len(rgs) copy only from cells of those same regions
\* or from the cells in shared.
CopiesStayWithin(rgs, first, shared) ==
    \A ri \in first..Len(rgs) :
        \A c \in rgs[ri].copies : c.from[1] >= first \/ c.from \in shared

\* C15: an encrypt call under the scheduled key returns, a second call in
\* the same proof with another plaintext returns too, and the regions of the
\* second call copy from no cell of the first call other than its round-key
\* cells (the regions of a call are new regions, so no cell is re-assigned).
C15_BlocksIndependent ==
    EncryptedWithKey
        => /\ outcome.result = "Ok"
           /\ \A p \in Blocks \ {circuit.plaintext} :
                 /\ encrypt(regions, key, p).result = "Ok"
                 /\ CopiesStayWithin(encrypt(regions, key, p).regions, Len(regions) + 1,
                                     CellsOf(words))

\* The advice cells of a region that are an input of a lookup on a row where
\* the selector of the lookup is on.
LookedUpCells(rg, lookups) ==
    UNION { UNION { IF s[1] # lookups[k].selector THEN {}
                    ELSE { <<lookups[k].inputs[j].col, s[2] + lookups[k].inputs[j].rot>> :
                             j \in { i \in 1..Len(lookups[k].inputs) :
                                       lookups[k].inputs[i].kind = "advice" } }
                    : s \in rg.sel }
            : k \in 1..Len(lookups) }

\* The advice cells of region ri that are neither looked up nor tied by a
\* copy constraint to a looked-up cell.
UnboundedCells(rgs, ri, lookups) ==
    { c \in (DOMAIN rgs[ri].adv) \ LookedUpCells(rgs[ri], lookups) :
        /\ ~\E d \in rgs[ri].copies :
              d.to = c /\ <<d.from[2], d.from[3]>> \in LookedUpCells(rgs[d.from[1]], lookups)
        /\ ~\E rj \in 1..Len(rgs) : \E d \in rgs[rj].copies :
              d.from = <<ri, c[1], c[2]>> /\ d.to \in LookedUpCells(rgs[rj], lookups) }

\* No tuple with a component beyond 255 is in the table of a lookup.
TablesHoldBytes(lds, lookups) ==
    \A k \in 1..Len(lookups) :
        \A t \in [1..Len(lookups[k].inputs) -> {0, U8_MAX, U8_MAX + 1}] :
            InTable(lds, lookups[k].table, t) => \A j \in DOMAIN t : t[j] <= U8_MAX

KsBytes(col, pos) ==
    <<Query(regions[4], Adv(col, 0), pos), Query(regions[4], Adv(col, 0), pos + 1),
      Query(regions[4], Adv(col, 0), pos + 2), Query(regions[4], Adv(col, 0), pos + 3)>>

\* The key schedule circuit has been synthesized whole (its region assigned
\* by the code or by a forging prover, and every byte range checked).
KsAssigned == circuit.kind = "key_schedule" /\ pc = "done"

\* C19: in every round r of 1..10 the rotated word is tied by the
\* constraints to word 4r-1 rotated left by one byte, rot = (w[1], w[2],
\* w[3], w[0]): a witness with other bytes in a rotated word is rejected by
\* verification.
C19_RotatedWordTied ==
    (KsAssigned /\ \E r \in 1..10 :
                      KsBytes("rot", 16 * r)
                          # <<KsBytes("words", 16 * r - 4)[2], KsBytes("words", 16 * r - 4)[3],
                              KsBytes("words", 16 * r - 4)[4], KsBytes("words", 16 * r - 4)[1]>>)
        => KsFailures # {}

\* C20: in every round r of 1..10 the four bytes of the rcon word are tied
\* by the constraints to the substituted word: byte 0 is subbed[0] XOR the
\* round constant of the fixed column, the bytes 1..3 are subbed[1..3]; a
\* witness with another rcon byte is rejected by verification.
C20_RconWordTied ==
    (KsAssigned /\ \E r \in 1..10 :
                      \/ Query(regions[4], Fix("round_constants", 0), 16 * r)
                            # get_round_constant(r - 1)
                      \/ KsBytes("rcon", 16 * r)
                            # <<xor_bytes(get_round_constant(r - 1),
                                          KsBytes("sub_bytes", 16 * r)[1])>>
                                  \o Tail(KsBytes("sub_bytes", 16 * r)))
        => KsFailures # {}

-----------------------------------------------------------------------------
(* Claims about the words of the key schedule, under SpecKeySchedule       *)

\* The cells <<column, row>> a lookup reads on a row.
RECURSIVE LookupReads(_, _)
LookupReads(qs, row) ==
    IF qs = <<>> THEN <<>> ELSE <<<<Head(qs).col, row + Head(qs).rot>>>> \o LookupReads(Tail(qs), row)

\* A lookup into the XOR table is declared and enabled on the row, and reads
\* the cells x, y and z as its operands and result.
XorLookupOn(rg, lookups, row, x, y, z) ==
    \E k \in 1..Len(lookups) :
        /\ <<lookups[k].selector, row>> \in rg.sel
        /\ lookups[k].table = "ks.u8_xor"
        /\ LookupReads(lookups[k].inputs, row) = <<x, y, z>>

\* The value of an advice cell <<column, row>> of a region.
Cell(rg, c) == Query(rg, Adv(c[1], 0), c[2])

\* Word i of the region (4 <= i < 44) is assigned as the XOR of the cells the
\* claim names, and an enabled XOR lookup reads those cells byte by byte.
WordAssignedAndConstrained(rg, lookups, i) ==
    \A j \in 0..3 :
        LET z == <<"words", 4 * i + j>>
            x == IF i % 4 = 0 THEN <<"words", 4 * (i - 4) + j>> ELSE <<"words", 4 * (i - 1) + j>>
            y == IF i % 4 = 0 THEN <<"rcon", 4 * i + j>> ELSE <<"words", 4 * (i - 4) + j>>
        IN /\ {x, y, z} \subseteq DOMAIN rg.adv
           /\ Cell(rg, z) = XorNat(Cell(rg, x), Cell(rg, y))
           /\ XorLookupOn(rg, lookups, 4 * i, x, y, z)

\* Every cell read by a lookup enabled in the region is in rows first..last.
LookupsStayInRows(rg, lookups, first, last) ==
    \A k \in 1..Len(lookups) : \A s \in rg.sel :
        s[1] = lookups[k].selector
            => \A n \in 1..Len(lookups[k].inputs) :
                  LookupReads(lookups[k].inputs, s[2])[n][2] \in first..last

\* C21: once schedule_keys has assigned its region, every word i of 4..43 is
\* assigned as word i-4 XOR rconned (i mod 4 = 0) or word i-1 XOR word i-4
\* (otherwise), an enabled XOR lookup reads exactly those cells for each of
\* its four bytes, exactly one of q_round_first and q_round_mid is enabled at
\* row 4i, every row of the XOR table has z = x XOR y, and no enabled lookup
\* of the region reads a row outside 0..175.
C21_WordsAssignedAndConstrained ==
    (circuit.kind = "key_schedule" /\ Len(regions) >= 4)
        => /\ \A i \in 4..43 :
                 /\ WordAssignedAndConstrained(regions[4], KeyScheduleLookups, i)
                 /\ (<<"q_round_first", 4 * i>> \in regions[4].sel) = (i % 4 = 0)
                 /\ (<<"q_round_mid", 4 * i>> \in regions[4].sel) = (i % 4 # 0)
           /\ \A t \in [1..3 -> {0, 1, U8_MAX - 1, U8_MAX}] :
                 InTable(loaded, "ks.u8_xor", t) => t[3] = XorNat(t[1], t[2])
           /\ LookupsStayInRows(regions[4], KeyScheduleLookups, 0, 175)

\* schedule_keys has assigned the 176 word cells, by the code or by a forging
\* prover, and the range checks are done
C21_Witness ==
    /\ circuit.kind = "key_schedule"
    /\ pc = "done"
    /\ Cardinality({c \in DOMAIN regions[4].adv : c[1] = "words"}) = 176
    /\ Cardinality({s \in regions[4].sel : s[1] \in {"q_round_first", "q_round_mid"}}) = 40

\* C22: once schedule_keys has assigned its region, the fixed column
\* round_constants is assigned at exactly the rows 4i of the word indices
\* i = 4, 8, .., 40, and the cell of round r (i = 4r) holds element r - 1 of
\* 1, 2, 4, 8, 16, 32, 64, 128, 27, 54: round 10 has 54.
C22_RoundConstants ==
    (circuit.kind = "key_schedule" /\ Len(regions) >= 4)
        => /\ DOMAIN regions[4].fixed = { <<"round_constants", 4 * i>> : i \in {4 * r : r \in 1..10} }
           /\ \A r \in 1..10 : regions[4].fixed[<<"round_constants", 16 * r>>] = Fips197Rcon[r]
           /\ regions[4].fixed[<<"round_constants", 160>>] = 54

\* the ten round constants have been assigned, the last at row 160
C22_Witness ==
    /\ circuit.kind = "key_schedule"
    /\ Len(regions) >= 4
    /\ Cardinality(DOMAIN regions[4].fixed) = 10
    /\ <<"round_constants", 160>> \in DOMAIN regions[4].fixed

\* The bytes of each word of a word table.
RECURSIVE WordValues(_)
WordValues(ws) == IF ws = <<>> THEN <<>> ELSE <<Values(Head(ws))>> \o WordValues(Tail(ws))

\* The key schedule region is the one schedule_keys assigns for the key.
KsHonest == regions[4] = schedule_keys(4, circuit.key, "synthesize").region

\* C23: schedule_keys returns 44 words of 4 cells; cell j of word i is the
\* cell of the words column at row 4i + j of the region, so the 176 cells
\* are 176 different rows and fill rows 0..175 with no other row of the
\* column assigned; the words the code computes follow from the first four
\* by the recurrence of the key expansion on words i-1 and i-4, and the last
\* four words are its round key 10.
C23_ScheduleShape ==
    (circuit.kind = "key_schedule" /\ Len(regions) >= 4)
        => /\ Len(words) = 44
           /\ \A i \in 0..43 :
                 /\ Len(words[i + 1]) = 4
                 /\ \A j \in 0..3 :
                       words[i + 1][j + 1]
                           = [region |-> 4, col |-> "words", row |-> 4 * i + j,
                              val |-> KsWordColumn[4 * i + j]]
           /\ Cardinality({ c[3] : c \in CellsOf(words) }) = 176
           /\ { c[2] : c \in { d \in DOMAIN regions[4].adv : d[1] = "words" } } = 0..175
           /\ KsHonest
                 => /\ WordValues(words) = Fips197Expand(WordValues(SubSeq(words, 1, 4)), 4)
                    /\ Flatten(WordValues(SubSeq(words, 41, 44)))
                           = Fips197RoundKey(Fips197Expand(WordValues(SubSeq(words, 1, 4)), 4), 10)

\* schedule_keys has returned the words it computed for the key
C23_Witness ==
    /\ circuit.kind = "key_schedule"
    /\ Len(regions) >= 4
    /\ KsHonest
    /\ Len(words) = 44
    /\ words[44][4].row = 175

-----------------------------------------------------------------------------
(* Claims about the standalone XOR tables                                  *)

\* The number of rows a standalone XOR table loader assigns, and the row at
\* which it assigns the pair (i, j).
XorTableRows(table) ==
    IF table = "ks.u8_xor" THEN u8_xor_table_rows ELSE table_u8_xor_rows

XorTableRow(table, i, j) ==
    IF table = "ks.u8_xor" THEN u8_xor_table_row(i, j) ELSE table_u8_xor_row(i, j)

\* C29: each standalone XOR table that has been loaded (that of
\* u8_xor_table.rs, which the key schedule looks up, and that of
\* table/u8_xor.rs) has exactly 65536 rows, and for every pair i, j of bytes,
\* 255 included, the row 256 i + j is (i, j, i XOR j).
C29_XorLoadersComplete ==
    \A table \in {"ks.u8_xor", "aes.u8_xor"} \cap loaded :
        /\ XorTableRows(table) = 65536
        /\ \A i \in {0, 1, U8_MAX - 1, U8_MAX} : \A j \in {0, 1, U8_MAX - 1, U8_MAX} :
              /\ InTable(loaded, table, <<i, j, XorNat(i, j)>>)
              /\ XorTableRow(table, i, j) = 256 * i + j

-----------------------------------------------------------------------------
(* Claims about the chip operations, under SpecChips                       *)

\* The selector, input columns, output columns and output value of each chip
\* operation, as the claim states them.
ChipRow(chip, x, y) ==
    CASE chip = "u8_range_check" -> [q |-> "q_range", ins |-> <<"x">>, outs |-> <<>>, val |-> 0]
      [] chip = "u8_xor" -> [q |-> "q_xor", ins |-> <<"x", "y">>, outs |-> <<"z">>,
                             val |-> XorNat(x, y)]
      [] chip = "sbox"   -> [q |-> "q_sbox", ins |-> <<"x">>, outs |-> <<"y">>,
                             val |-> S_BOX[x + 1]]
      [] chip = "mul2"   -> [q |-> "q_mul2", ins |-> <<"x">>, outs |-> <<"y">>,
                             val |-> XorNat((2 * x) % 256, IF x >= 128 THEN 27 ELSE 0)]
      [] chip = "mul3"   -> [q |-> "q_mul3", ins |-> <<"x">>, outs |-> <<"y">>,
                             val |-> XorNat(XorNat((2 * x) % 256, IF x >= 128 THEN 27 ELSE 0), x)]

\* The region rg, region number ri, is one row of a chip: the selector q on
\* at offset 0 and no other, the columns ins copied at offset 0 from the
\* cells given, and the columns outs assigned at offset 0 with the value val.
OneChipRow(rg, ri, row, cells) ==
    /\ RegionRows(rg) = {0}
    /\ rg.sel = {<<row.q, 0>>}
    /\ rg.copies = { [from |-> <<cells[k].region, cells[k].col, cells[k].row>>,
                      to |-> <<row.ins[k], 0>>] : k \in 1..Len(row.ins) }
    /\ \A c \in rg.copies : c.from[1] < ri
    /\ DOMAIN rg.adv = { <<row.ins[k], 0>> : k \in 1..Len(row.ins) }
                           \cup { <<row.outs[k], 0>> : k \in 1..Len(row.outs) }
    /\ \A k \in 1..Len(row.ins) : rg.adv[<<row.ins[k], 0>>] = cells[k].val
    /\ \A k \in 1..Len(row.outs) : rg.adv[<<row.outs[k], 0>>] = row.val

\* C28: a chip operation that has returned has added one region of one row:
\* the chip's selector on at offset 0, each input copied at offset 0 from
\* the cell passed in, and (but for the range check) one output cell newly
\* assigned at offset 0 holding x XOR y, Sbox[x], 2 * x or 3 * x in GF(2^8);
\* the returned cell is that output cell, and with the table as loaded the
\* row passes every chip lookup.
C28_ChipOperationOneRow ==
    (circuit.kind = "chips" /\ pc = "done")
        => LET row == ChipRow(circuit.chip, circuit.x, circuit.y)
           IN /\ Len(regions) = 3
              /\ OneChipRow(regions[3], 3, row, words[1])
              /\ outcome.result = "Ok"
              /\ outcome.cells = [k \in 1..Len(row.outs) |->
                                    AssignedCell(3, row.outs[k], 0, row.val)]
              /\ ChipLookupFailures(regions, loaded, 1, ChipLookups) = {}
              /\ PermutationFailures(regions) = {}

\* the mul-by-3 chip has run on the byte 255 and returned the cell holding 0x1A
C28_Witness ==
    /\ circuit.kind = "chips" /\ pc = "done"
    /\ circuit.chip = "mul3" /\ circuit.x = 255
    /\ outcome.cells = <<AssignedCell(3, "y", 0, 26)>>

-----------------------------------------------------------------------------
(* lcon applied to a word, as MixColumns applies it: the tables are loaded *)
(* as TestAesCircuit loads them, a word of four cells lies at rows 32..35  *)
(* of a region "Assign rounds" (the first word ShiftRows leaves there),    *)
(* and lcon is called with each row of the matrix in turn, from offset 48  *)
(* on.  loop_i is the running offset, outcome.cells the cells returned.    *)

LconBytes == {0, 1, 127, 128, 255}

LcInit ==
    /\ circuit \in {[kind |-> "lcon", word |-> w] : w \in [1..4 -> LconBytes]}
    /\ pc = "load u8_xor_table"
    /\ loaded = {}
    /\ regions = <<>>
    /\ words = <<>>
    /\ loop_i = 0
    /\ key = None
    /\ outcome = NoOutcome
    /\ sched = NoSched

\* the word lcon is given: four cells of the words column, rows 32..35
LcAssignWord ==
    /\ pc = "set_key" /\ circuit.kind = "lcon"
    /\ regions' = Append(regions, AssignWord(NewRegion("Assign rounds", "encrypt"),
                                             "aes.words", 32, circuit.word))
    /\ words' = <<WordCells(Len(regions) + 1, "aes.words", 32, circuit.word)>>
    /\ loop_i' = 48
    /\ outcome' = [result |-> "Ok", cells |-> <<>>]
    /\ pc' = "lcon"
    /\ UNCHANGED <<circuit, loaded, key, sched>>

\* let (res, off) = self.lcon(&mut region, word, col, offset)?; offset += off
LcLcon ==
    /\ pc = "lcon"
    /\ Len(outcome.cells) < Len(matrix)
    /\ LET l == lcon(regions[Len(regions)], Len(regions), words[1],
                     matrix[Len(outcome.cells) + 1], loop_i)
       IN IF l.result = "Ok"
          THEN /\ regions' = [regions EXCEPT ![Len(regions)] = l.rg]
               /\ outcome' = [outcome EXCEPT !.cells = Append(@, l.res)]
               /\ loop_i' = loop_i + l.off
               /\ pc' = pc
          ELSE /\ outcome' = [outcome EXCEPT !.result = l.result]
               /\ pc' = "stopped"
               /\ UNCHANGED <<regions, loop_i>>
    /\ UNCHANGED <<circuit, loaded, words, key, sched>>

\* .collect::<Result<Vec<_>, Error>>(): the four cells of the mixed word
LcReturn ==
    /\ pc = "lcon"
    /\ Len(outcome.cells) = Len(matrix)
    /\ pc' = "done"
    /\ UNCHANGED <<circuit, loaded, regions, words, loop_i, key, outcome, sched>>

LcNext ==
    \/ LoadU8XorTable
    \/ LoadSboxTable
    \/ LoadKeySchedule
    \/ LoadMul2Table
    \/ LoadMul3Table
    \/ LcAssignWord
    \/ LcLcon
    \/ LcReturn

SpecLcon == LcInit /\ [][LcNext]_vars

\* mock.verify() of the lookups of the circuit lcon has written to
LcFailures == Verify(regions, loaded, AesLookups, <<>>)

-----------------------------------------------------------------------------
(* Claims about lcon, under SpecLcon                                       *)

\* Multiplication by 1, 2 or 3 in GF(2^8) modulo x^8 + x^4 + x^3 + x + 1 (0x11B).
GfDouble(b) == IF 2 * b >= 256 THEN XorNat(2 * b, 283) ELSE 2 * b

GfMul(c, b) == CASE c = 1 -> b [] c = 2 -> GfDouble(b) [] c = 3 -> XorNat(GfDouble(b), b)

\* The row, counted from the offset of the call, at which the product of
\* byte n begins: a coefficient 1 takes one row, 2 and 3 take two.
RECURSIVE TermStart(_, _)
TermStart(coeffs, n) ==
    IF n = 1 THEN 0
    ELSE TermStart(coeffs, n - 1) + (IF coeffs[n - 1] = 1 THEN 1 ELSE 2)

\* The row of the cell holding the product of byte n.
TermRow(coeffs, n) == TermStart(coeffs, n) + (IF coeffs[n] = 1 THEN 0 ELSE 1)

\* The cell at row `to` of region ri is a copy of the cell at row `from` of it.
CopiedInRegion(rg, ri, from, to) ==
    [from |-> <<ri, "aes.words", from>>, to |-> <<"aes.words", to>>] \in rg.copies

\* The rows base .. base + 13 of the region hold one call of lcon on the word
\* cells (rows 32..35) with the coefficients coeffs, and res is its result.
LconCallAsStated(rg, ri, b, coeffs, base, res) ==
    LET at(row) == rg.adv[<<"aes.words", row>>]
        t(n)    == base + TermRow(coeffs, n)
    IN /\ \A n \in 1..4 :
             /\ CopiedInRegion(rg, ri, 32 + (n - 1), base + TermStart(coeffs, n))
             /\ at(t(n)) = GfMul(coeffs[n], b[n])
             /\ (coeffs[n] = 2) = (<<"aes.q_mul_by_2", base + TermStart(coeffs, n)>> \in rg.sel)
             /\ (coeffs[n] = 3) = (<<"aes.q_mul_by_3", base + TermStart(coeffs, n)>> \in rg.sel)
       /\ { s \in rg.sel : s[2] \in base..(base + 13) /\ s[1] = "aes.q_xor_adj" }
              = { <<"aes.q_xor_adj", base + 6>>, <<"aes.q_xor_adj", base + 9>>,
                  <<"aes.q_xor_adj", base + 11>> }
       /\ Cardinality({ s \in rg.sel : s[2] \in base..(base + 13) }) = 5
       \* (t0, t1, m0)
       /\ CopiedInRegion(rg, ri, t(1), base + 6)
       /\ CopiedInRegion(rg, ri, t(2), base + 7)
       /\ at(base + 8) = XorNat(at(t(1)), at(t(2)))
       \* (t2, t3, m1)
       /\ CopiedInRegion(rg, ri, t(3), base + 9)
       /\ CopiedInRegion(rg, ri, t(4), base + 10)
       /\ at(base + 11) = XorNat(at(t(3)), at(t(4)))
       \* (m1, m0, out)
       /\ CopiedInRegion(rg, ri, base + 8, base + 12)
       /\ at(base + 13)
              = XorNat(XorNat(GfMul(coeffs[1], b[1]), GfMul(coeffs[2], b[2])),
                       XorNat(GfMul(coeffs[3], b[3]), GfMul(coeffs[4], b[4])))
       /\ res = AssignedCell(ri, "aes.words", base + 13, at(base + 13))

\* C25: after lcon has been called on a word (b0, b1, b2, b3) with the first
\* k rows of the matrix, call n has written 14 rows from its offset on: each
\* byte copied from the word, a coefficient 1 with no selector, 2 and 3 under
\* the mul-by-2 and mul-by-3 selector with the product in the next row, and
\* three enabled adjacent-XOR lookups (t0, t1, m0), (t2, t3, m1) and
\* (m1, m0, out); the cell returned holds c0 b0 XOR c1 b1 XOR c2 b2 XOR c3 b3
\* in GF(2^8) modulo 0x11B, every lookup and copy constraint is satisfied,
\* and the four cells are the MixColumns of the word.
C25_LconLinearCombination ==
    (circuit.kind = "lcon" /\ pc \in {"lcon", "done"})
        => /\ \A n \in 1..Len(outcome.cells) :
                 LconCallAsStated(regions[Len(regions)], Len(regions), circuit.word,
                                  matrix[n], 48 + 14 * (n - 1), outcome.cells[n])
           /\ loop_i = 48 + 14 * Len(outcome.cells)
           /\ Cardinality(DOMAIN regions[Len(regions)].adv) = 4 + 14 * Len(outcome.cells)
           /\ LcFailures = {}
           /\ pc = "done" => Values(outcome.cells) = Fips197MixColumn(circuit.word)

\* lcon has run with the four rows on the word (255, 128, 1, 0)
C25_Witness ==
    /\ circuit.kind = "lcon" /\ pc = "done"
    /\ circuit.word = <<255, 128, 1, 0>>
    /\ Len(outcome.cells) = 4
    /\ outcome.cells[1].val = XorNat(XorNat(229, 155), 1)

-----------------------------------------------------------------------------
(* Claims about the rounds of encrypt, under Spec.  The regions of the     *)
(* rounds are the regions named "Assign rounds", in the order assigned.    *)

RoundRegions(rgs) == { ri \in 1..Len(rgs) : rgs[ri].name = "Assign rounds" }

\* encrypt has assigned the regions of the rounds 1..10
AllRoundsAssigned(rgs) == Cardinality(RoundRegions(rgs)) = 10

\* The region of round r, when all rounds have a region.
RoundIndex(rgs, r) ==
    CHOOSE ri \in RoundRegions(rgs) : Cardinality({ rj \in RoundRegions(rgs) : rj <= ri }) = r

\* The value of the words column at a row of a region.
AesCell(rg, row) == rg.adv[<<"aes.words", row>>]

\* The cell at row `to` of the region is an equality copy of the cell `from`
\* (a <<region, column, row>>) and holds its value.
AesCopy(rgs, rg, from, to) ==
    /\ [from |-> from, to |-> <<"aes.words", to>>] \in rg.copies
    /\ <<"aes.words", to>> \in DOMAIN rg.adv
    /\ <<from[2], from[3]>> \in DOMAIN rgs[from[1]].adv
    /\ AesCell(rg, to) = rgs[from[1]].adv[<<from[2], from[3]>>]

\* Byte j of the SubBytes output of word i lies at row 8 i + 4 + j, byte j of
\* shifted word i at row 32 + 4 i + j.
SubbedRow(i, j) == 8 * i + 4 + j

ShiftedRow(i, j) == 32 + 4 * i + j

\* The state of 16 bytes held by the rows row(i, j) of a region, word by word.
StateAt(rg, row(_, _)) == [n \in 1..16 |-> AesCell(rg, row((n - 1) \div 4, (n - 1) % 4))]

\* ShiftRows of a round region as the claim states it.
ShiftRowsAsStated(rgs, ri) ==
    /\ \A i \in 0..3, j \in 0..3 :
          AesCopy(rgs, rgs[ri], <<ri, "aes.words", SubbedRow((i + j) % 4, j)>>, ShiftedRow(i, j))
    /\ Cardinality({ SubbedRow((i + j) % 4, j) : i \in 0..3, j \in 0..3 }) = 16
    /\ \A s \in rgs[ri].sel : s[2] \notin 32..47
    /\ StateAt(rgs[ri], ShiftedRow) = Fips197ShiftRows(StateAt(rgs[ri], SubbedRow))

\* C24: encrypt under a key assigns the ten rounds, and in each of them
\* byte j of shifted word i is an equality copy of byte j of substituted
\* word (i + j) mod 4, the 16 sources are 16 different cells, no selector is
\* enabled on the 16 shifted rows, and the shifted state is the AES
\* ShiftRows of the substituted state.
C24_ShiftRowsPermutation ==
    EncryptedWithKey
        => /\ AllRoundsAssigned(regions)
           /\ \A ri \in RoundRegions(regions) : ShiftRowsAsStated(regions, ri)

\* Byte j of mixed word i is the cell the j-th lcon call on word i returns;
\* a call takes 14 rows, the calls begin at row 48.
MixedRow(i, j) == 48 + 56 * i + 14 * j + 13

\* The first row of the AddRoundKey of round r; a word takes 12 rows there:
\* its four bytes, the four round-key bytes, the four output bytes.
AddRoundKeyBase(r) == IF r = 10 THEN 48 ELSE 272

\* Output cell n (0..15) of the step before round r: the initial AddRoundKey
\* (one region per word, before the region of round 1) or round r - 1.
PrevRoundOut(rgs, r, n) ==
    IF r = 1
    THEN <<RoundIndex(rgs, 1) - 4 + (n \div 4), "aes.words", 12 * (n \div 4) + 8 + (n % 4)>>
    ELSE <<RoundIndex(rgs, r - 1), "aes.words",
           AddRoundKeyBase(r - 1) + 12 * (n \div 4) + 8 + (n % 4)>>

\* The selectors of MixColumns.
MixSelectors == {"aes.q_mul_by_2", "aes.q_mul_by_3", "aes.q_xor_adj"}

\* The steps of round r in its region, in the order of the rows.
RoundStepsAsStated(rgs, r) ==
    LET ri == RoundIndex(rgs, r)
        rg == rgs[ri]
        a  == AddRoundKeyBase(r)
    IN \* SubBytes of the previous round's 16 output cells
       /\ \A i \in 0..3, j \in 0..3 :
             /\ AesCopy(rgs, rg, PrevRoundOut(rgs, r, 4 * i + j), 8 * i + j)
             /\ <<"aes.q_sub_bytes", 8 * i + j>> \in rg.sel
             /\ AesCell(rg, SubbedRow(i, j)) = S_BOX[AesCell(rg, 8 * i + j) + 1]
       \* then ShiftRows
       /\ StateAt(rg, ShiftedRow) = Fips197ShiftRows(StateAt(rg, SubbedRow))
       \* then MixColumns, but in round 10
       /\ IF r = 10
          THEN /\ { s \in rg.sel : s[1] \in MixSelectors } = {}
               /\ \A i \in 0..3, j \in 0..3 :
                     AesCell(rg, a + 12 * i + j) = AesCell(rg, ShiftedRow(i, j))
          ELSE /\ StateAt(rg, MixedRow) = Fips197MixColumns(StateAt(rg, ShiftedRow))
               /\ \A i \in 0..3, j \in 0..3 :
                     AesCell(rg, a + 12 * i + j) = AesCell(rg, MixedRow(i, j))
       \* then AddRoundKey
       /\ \A i \in 0..3, j \in 0..3 :
             /\ <<"aes.q_xor_bytes", a + 12 * i + j>> \in rg.sel
             /\ AesCell(rg, a + 12 * i + 8 + j)
                    = XorNat(AesCell(rg, a + 12 * i + j), AesCell(rg, a + 12 * i + 4 + j))

\* C26: encrypt under a key assigns the ten rounds; each of the rounds 1..9
\* substitutes the 16 output cells of the step before it, shifts, mixes and
\* adds the round key, in that order of rows; round 10 substitutes, shifts
\* and adds the round key to the shifted bytes, with no mul-by-2, mul-by-3
\* or adjacent-XOR selector enabled; MixColumns selectors are enabled in
\* exactly 9 rounds.
C26_RoundStepOrder ==
    EncryptedWithKey
        => /\ AllRoundsAssigned(regions)
           /\ \A r \in 1..10 : RoundStepsAsStated(regions, r)
           /\ Cardinality({ ri \in RoundRegions(regions) :
                              \E s \in regions[ri].sel : s[1] \in MixSelectors }) = 9

\* The cell of byte n (0..15) of round key r in the key schedule region ks:
\* word 4r + n div 4 of the schedule, byte n mod 4.
RoundKeyCell(ks, r, n) == <<ks, "words", 16 * r + n>>

\* The region of the key schedule encrypt assigned.
EncryptKeySchedule(rgs) ==
    CHOOSE ri \in 1..Len(rgs) : rgs[ri].name = "Assign words" /\ rgs[ri].by = "encrypt"

\* The cell holding byte j of word i of the state AddRoundKey of round r takes.
AddRoundKeyInput(ri, r, i, j) ==
    <<ri, "aes.words", IF r = 10 THEN ShiftedRow(i, j) ELSE MixedRow(i, j)>>

\* Both operands of every AddRoundKey lookup of round r are equality copies
\* of their sources.
AddRoundKeyOperandsTied(rgs, r) ==
    LET ri == RoundIndex(rgs, r)
        a  == AddRoundKeyBase(r)
    IN \A i \in 0..3, j \in 0..3 :
          /\ <<"aes.q_xor_bytes", a + 12 * i + j>> \in rgs[ri].sel
          /\ AesCopy(rgs, rgs[ri], AddRoundKeyInput(ri, r, i, j), a + 12 * i + j)
          /\ AesCopy(rgs, rgs[ri], RoundKeyCell(EncryptKeySchedule(rgs), r, 4 * i + j),
                     a + 12 * i + 4 + j)

\* C27: encrypt under a key assigns the ten rounds, and in every round r and
\* for every byte 4i + j the first operand of the AddRoundKey lookup is an
\* equality copy of byte j of word i of the mixed state (of the shifted state
\* in round 10) and the second an equality copy of byte 4i + j of round key
\* r, a cell of the key schedule region, which no round region assigns.
C27_AddRoundKeyOperandsTied ==
    EncryptedWithKey
        => /\ AllRoundsAssigned(regions)
           /\ \A r \in 1..10 : AddRoundKeyOperandsTied(regions, r)
           /\ \A ri \in RoundRegions(regions) :
                 \A c \in DOMAIN regions[ri].adv : c[1] = "aes.words"

\* The step a row of the region of round r belongs to: the SubBytes of a word
\* (8 rows each, rows 0..31), ShiftRows (rows 32..47), one call of lcon (14
\* rows each, from row 48 to the AddRoundKey) or the AddRoundKey of a word
\* (12 rows each).
RoundStepOfRow(r, row) ==
    LET a == AddRoundKeyBase(r)
    IN CASE row < 0  -> <<"none", 0>>
         [] row < 32 -> <<"SubBytes", row \div 8>>
         [] row < 48 -> <<"ShiftRows", 0>>
         [] row < a  -> <<"lcon", (row - 48) \div 14>>
         [] row < a + 48 -> <<"AddRoundKey", (row - a) \div 12>>
         [] OTHER -> <<"none", 1>>

\* The rows of the words column a lookup reads from an enabled row.
LookupRowsFrom(lookup, row) ==
    { row + lookup.inputs[k].rot : k \in { n \in 1..Len(lookup.inputs) :
                                            lookup.inputs[n].kind = "advice" } }

\* The rows of the region of round r: the words column holds the rows
\* 0..319 (0..95 in round 10) and nothing else, the selectors of a step lie in
\* the rows of that step, the three adjacent XORs of a call of lcon lie on its
\* rows 6, 9 and 11 and its result on row 13, no row is the target of two
\* copies, and every lookup enabled on a row reads rows of the step of that row.
RoundRowsAsStated(rgs, lookups, r) ==
    LET ri == RoundIndex(rgs, r)
        rg == rgs[ri]
        a  == AddRoundKeyBase(r)
        n  == IF r = 10 THEN 96 ELSE 320
    IN /\ DOMAIN rg.adv = { <<"aes.words", row>> : row \in 0..(n - 1) }
       /\ a + 48 = n
       /\ \A s \in rg.sel :
             RoundStepOfRow(r, s[2])[1]
                 = CASE s[1] = "aes.q_sub_bytes" -> "SubBytes"
                     [] s[1] \in MixSelectors -> "lcon"
                     [] s[1] = "aes.q_xor_bytes" -> "AddRoundKey"
                     [] OTHER -> "none"
       /\ \A k \in 0..((a - 48) \div 14 - 1) :
             { s[2] - (48 + 14 * k) :
                 s \in { t \in rg.sel : /\ t[1] = "aes.q_xor_adj"
                                        /\ RoundStepOfRow(r, t[2]) = <<"lcon", k>> } }
                 = {6, 9, 11}
       /\ Cardinality({ c.to : c \in rg.copies }) = Cardinality(rg.copies)
       /\ \A s \in rg.sel : \A k \in 1..Len(lookups) :
             lookups[k].selector = s[1]
                 => \A row \in LookupRowsFrom(lookups[k], s[2]) :
                       RoundStepOfRow(r, row) = RoundStepOfRow(r, s[2])

\* C30: encrypt under a key assigns the ten rounds, and the region of every
\* round holds SubBytes on rows 0..31, ShiftRows on rows 32..47, one call of
\* lcon on each 14 rows from row 48 and the AddRoundKey of a word on each 12
\* rows after them, 320 rows in the rounds 1..9 and 96 rows in round 10, with
\* every lookup reading rows of the step its selector is enabled in.
C30_RoundRowLayout ==
    EncryptedWithKey
        => /\ AllRoundsAssigned(regions)
           /\ \A r \in 1..10 : RoundRowsAsStated(regions, AesLookups, r)

====
